---- MODULE Spec2Model ----
(***************************************************************************)
(* A model of lunik, the MoonBit toolchain multiplexer:                    *)
(*   - the channel descriptor parser            (src/src/channel.rs)       *)
(*   - the fallback-chain resolver              (src/src/mux.rs)           *)
(*   - the configuration store                  (src/src/config.rs)        *)
(*   - the channel installer                    (src/src/self_ops/channel.rs) *)
(*                                                                         *)
(* Strings.  A Rust string is modelled by the sequence of its '-'-free     *)
(* segments: "latest-linux-x86_64" is <<"latest", "linux", "x86_64">>, ""  *)
(* is <<"">> and "latest-" is <<"latest", "">>.  This is a bijection       *)
(* between strings and non-empty sequences of '-'-free strings, under      *)
(* which str::split('-') is the sequence itself and joining with '-' is    *)
(* concatenation of sequences.                                             *)
(***************************************************************************)
EXTENDS Integers, Sequences, FiniteSets, TLC

VARIABLES
    hostOs,     \* std::env::consts::OS of the running platform
    hostArch,   \* std::env::consts::ARCH of the running platform
    pin,        \* parser harness: the input string
    ppc,        \* parser harness: "start", "parsed" or "rendered"
    pres,       \* parser harness: the Result of Channel::from_str
    prend,      \* parser harness: Channel::to_string of the parsed value
    pback,      \* parser harness: the result of parsing the rendered string
    rcfg,       \* resolver harness: the Config passed as cfg
    rexists,    \* resolver harness: the paths for which Path::exists() is true
    rmode,      \* resolver harness: "exe" (try_get_executable) or "core" (try_get_core_lib)
    rreq,       \* resolver harness: the toolchain argument, an Option<&str>
    rst,        \* resolver harness: the state of the loop, see RState
    envCore,    \* MOON_CORE_OVERRIDE in the environment of the process: "unset", "unicode"
                \* (set to a value that is valid Unicode) or "not_unicode"
    launch,     \* launcher harness: the position and the locals of mux::entry
    served,     \* the release server: whether the files of its archives match its checksum manifest
    cfgFile,    \* <home>/lunik.json: whether it exists, and the Config it holds
    dirs,       \* the directories under <home>/lunik/toolchain: directory -> tree
    links,      \* the links of <home>/bin, by name
    home,       \* <home>/lib and <home>/bin/lsp-server.js: the toolchain each links to
    pc,         \* per process: the position in the running handler, or "idle"
    loc,        \* per process: the local variables of the running handler
    ret,        \* per process: the handler that returned last and its Result
    snap,       \* per process: cfgFile and dirs when the running handler started (history)
    nops,       \* number of handlers started so far
    ninst,      \* number of trees staged so far; numbers the staged trees
    relink      \* relink harness: one call of ensure_all_executables_are_linked

envvars == <<hostOs, hostArch, envCore, served>>
pvars == <<pin, ppc, pres, prend, pback>>
rvars == <<rcfg, rexists, rmode, rreq, rst>>
ivars == <<cfgFile, dirs, links, pc, loc, ret, snap, nops, ninst>>
lvars == <<launch>>
hvars == <<home, relink>>

\* Option::None of a string (every string has at least one segment)
None == <<>>

\* ------------------------------------------------------------------------
\* Bounds
\* ------------------------------------------------------------------------

\* longest input string of the parser harness, in '-'-separated segments
MaxSegs == 4

\* number of handlers (init-config, channel add, update, remove) run in a row
MaxOps == 3

\* the number of commands run concurrently
MaxConcOps == 2

\* the number of commands that the command harness runs
MaxCmdOps == 2

\* the '-'-free strings that inputs are built from
Segs == {"", "latest", "bleeding", "1.0.0", "linux", "x86_64"}

OsNames == {"linux", "macos", "windows"}
ArchNames == {"x86_64", "aarch64"}

Strings(n) == UNION {[1..k -> Segs] : k \in 1..n}

\* ------------------------------------------------------------------------
\* channel.rs
\* ------------------------------------------------------------------------

NoVal == [none |-> TRUE]
Ok(v) == [ok |-> TRUE, val |-> v, err |-> ""]
Err(e) == [ok |-> FALSE, val |-> NoVal, err |-> e]

\* s.splitn(2, '-'): the first segment, and the remainder when there is a '-'
SplitN2(s) == [first |-> s[1], rest |-> IF Len(s) >= 2 THEN Tail(s) ELSE None]

Latest == [tag |-> "Latest", v |-> ""]
Bleeding == [tag |-> "Bleeding", v |-> ""]
Version(t) == [tag |-> "Version", v |-> t]

\* ChannelKind::from_str without the arm of "bleeding"
ChannelKind_from_str_NoBleeding(t) ==
    IF t = "latest" THEN Ok(Latest) ELSE Ok(Version(t))

ChannelKind_from_str(t) ==
    IF t = "latest" THEN Ok(Latest)
    ELSE IF t = "bleeding" THEN Ok(Bleeding)
    ELSE Ok(Version(t))

\* ChannelKind_to_string without the arm of Bleeding
ChannelKind_to_string_NoBleeding(k) ==
    IF k.tag = "Latest" THEN "latest" ELSE k.v

ChannelKind_to_string(k) ==
    IF k.tag = "Latest" THEN "latest"
    ELSE IF k.tag = "Bleeding" THEN "bleeding"
    ELSE k.v

\* s.split('-'): the first item always exists and is the os, the second is
\* the arch, further items are never looked at
Host_from_str(s) ==
    IF Len(s) >= 2 THEN Ok([os |-> s[1], arch |-> s[2]])
    ELSE Err("missing arch")

\* default_os_string without the rewrite of "macos"
default_os_string_NoRewrite(os) == os

default_os_string(os) == IF os = "macos" THEN "darwin" ELSE os

default_arch_string(arch) == arch

Host_default(os, arch) ==
    [os |-> default_os_string(os), arch |-> default_arch_string(arch)]

Host_to_string(h) == <<h.os, h.arch>>

Channel_from_str(s, os, arch) ==
    LET parts == SplitN2(s)
        channel == ChannelKind_from_str(parts.first)
        host == IF parts.rest = None THEN Ok(Host_default(os, arch))
                ELSE Host_from_str(parts.rest)
    IN  IF ~channel.ok THEN channel
        ELSE IF ~host.ok THEN host
        ELSE Ok([channel |-> channel.val, host |-> host.val])

Channel_to_string(c) == <<ChannelKind_to_string(c.channel)>> \o Host_to_string(c.host)


\* ------------------------------------------------------------------------
\* config.rs
\* ------------------------------------------------------------------------

\* A directory is [kind, name]: "toolchain" is <home>/lunik/toolchain/<name>,
\* "custom" is a path written in the configuration by the user, "none" is
\* Option::None.  A path is a directory joined with a relative path.
NoDir == [kind |-> "none", name |-> <<>>]
CustomDir(n) == [kind |-> "custom", name |-> <<n>>]
Join(dir, sub) == [dir |-> dir, sub |-> sub]
NoPath == Join(NoDir, "")
CustomPath(n) == Join(CustomDir(n), "")

toolchain_path(toolchain_name) == [kind |-> "toolchain", name |-> toolchain_name]

\* ToolchainInfo; override_ is the set of (executable, path) entries of the map
ToolchainInfo(fallback, root_path, override_, core_path) ==
    [fallback |-> fallback, root_path |-> root_path,
     override_ |-> override_, core_path |-> core_path]

ToolchainInfo_default == ToolchainInfo(None, NoDir, {}, NoPath)

\* Config; toolchain is a function from the keys of the map, channels is the
\* set of keys of the channels map (ChannelInfo holds only url: None)
Config(toolchain, channels, default) ==
    [toolchain |-> toolchain, channels |-> channels, default |-> default]

\* ------------------------------------------------------------------------
\* mux.rs
\* ------------------------------------------------------------------------

HasOverride(toolchain, executable_name) ==
    \E e \in toolchain.override_ : e[1] = executable_name

OverrideOf(toolchain, executable_name) ==
    (CHOOSE e \in toolchain.override_ : e[1] = executable_name)[2]

RootOf(toolchain_name, toolchain) ==
    IF toolchain.root_path # NoDir THEN toolchain.root_path
    ELSE toolchain_path(toolchain_name)

\* get_toolchain_executable without the override lookup
get_toolchain_executable_PreferRoot(toolchain_name, toolchain, executable_name) ==
    Join(RootOf(toolchain_name, toolchain), executable_name)

\* The build modelled is a Unix one: no ".exe" is stripped or appended, and
\* <root>/bin/<exe> is written Join(root, "bin/<exe>").
get_toolchain_executable(toolchain_name, toolchain, executable_name) ==
    IF HasOverride(toolchain, executable_name)
    THEN OverrideOf(toolchain, executable_name)
    ELSE Join(RootOf(toolchain_name, toolchain), executable_name)

\* get_toolchain_core_lib that takes a per-executable override for the library
get_toolchain_core_lib_UsesOverride(toolchain_name, toolchain) ==
    IF toolchain.override_ # {} THEN OverrideOf(toolchain, "bin/moon")
    ELSE IF toolchain.core_path # NoPath THEN toolchain.core_path
    ELSE Join(RootOf(toolchain_name, toolchain), "lib/core")

get_toolchain_core_lib(toolchain_name, toolchain) ==
    IF toolchain.core_path # NoPath THEN toolchain.core_path
    ELSE Join(RootOf(toolchain_name, toolchain), "lib/core")

\* the lookup with the canonical channel name tried before the name itself
LookupToolchain_CanonicalFirst(cfg, toolchain_name, os, arch) ==
    LET ch == Channel_from_str(toolchain_name, os, arch)
    IN  IF ch.ok /\ Channel_to_string(ch.val) \in DOMAIN cfg.toolchain
        THEN Ok([real |-> Channel_to_string(ch.val),
                 info |-> cfg.toolchain[Channel_to_string(ch.val)]])
        ELSE IF toolchain_name \in DOMAIN cfg.toolchain
        THEN Ok([real |-> toolchain_name, info |-> cfg.toolchain[toolchain_name]])
        ELSE Err("Toolchain not found")

\* The head of the loop body: cfg.toolchain.get(toolchain_name), and the
\* canonical channel name when that fails.
LookupToolchain(cfg, toolchain_name, os, arch) ==
    IF toolchain_name \in DOMAIN cfg.toolchain
    THEN Ok([real |-> toolchain_name, info |-> cfg.toolchain[toolchain_name]])
    ELSE LET ch == Channel_from_str(toolchain_name, os, arch)
         IN  IF ch.ok /\ Channel_to_string(ch.val) \in DOMAIN cfg.toolchain
             THEN Ok([real |-> Channel_to_string(ch.val),
                      info |-> cfg.toolchain[Channel_to_string(ch.val)]])
             ELSE Err("Toolchain not found")

\* The candidate path of one loop iteration. An executable path of
\* <root>/bin/<exe> is written Join(root, exe) with exe = "bin/moon".
CandidateOf(mode, real, info, exe) ==
    IF mode = "exe" THEN get_toolchain_executable(real, info, exe)
    ELSE get_toolchain_core_lib(real, info)

\* The loop state: pc is "loop" (at the head of the loop with toolchain_name
\* = cur), "probe" (the lookup gave the entry named real, before the
\* exists() test), "ok" (returned Ok(path)) or "err" (returned Err: kind is
\* the message, name the toolchain name and path the path the message prints).
RState(at, cur, real, path, kind, name) ==
    [pc |-> at, cur |-> cur, real |-> real, path |-> IF at = "ok" THEN path ELSE NoPath,
     err |-> [kind |-> kind, name |-> name, path |-> IF at = "err" THEN path ELSE NoPath]]

\* let mut toolchain_name = toolchain.unwrap_or(&cfg.default)
RStart(cfg, toolchain) ==
    RState("loop", IF toolchain = None THEN cfg.default ELSE toolchain, None, NoPath, "", None)

\* NotFoundKind with the messages of the two walks exchanged
NotFoundKind_Swapped(mode) ==
    IF mode = "exe" THEN "Core library not found" ELSE "Executable not found"

NotFoundKind(mode) ==
    IF mode = "exe" THEN "Executable not found" ELSE "Core library not found"

\* The first half of the loop body: the lookup of toolchain_name.
AfterLookup(cfg, os, arch, st) ==
    LET l == LookupToolchain(cfg, st.cur, os, arch)
    IN  IF l.ok THEN RState("probe", st.cur, l.val.real, NoPath, "", None)
        ELSE RState("err", st.cur, None, NoPath, "Toolchain not found", st.cur)

\* AfterProbe with the fallback never followed
AfterProbe_NoFallback(cfg, ex, mode, exe, st) ==
    LET info == cfg.toolchain[st.real]
        path == CandidateOf(mode, st.real, info, exe)
    IN  IF path \in ex THEN RState("ok", st.cur, st.real, path, "", None)
        ELSE RState("err", st.cur, st.real, path, NotFoundKind(mode), None)

\* AfterProbe with <root>/bin/<exe> probed when the override path is missing
AfterProbe_ProbesRootToo(cfg, ex, mode, exe, st) ==
    LET info == cfg.toolchain[st.real]
        path == CandidateOf(mode, st.real, info, exe)
        under_root == Join(RootOf(st.real, info), exe)
    IN  IF path \in ex THEN RState("ok", st.cur, st.real, path, "", None)
        ELSE IF mode = "exe" /\ under_root \in ex
             THEN RState("ok", st.cur, st.real, under_root, "", None)
        ELSE IF info.fallback # None
             THEN RState("loop", info.fallback, None, NoPath, "", None)
             ELSE RState("err", st.cur, st.real, path, NotFoundKind(mode), None)

\* AfterProbe with the candidate returned without the exists() test
AfterProbe_NoExistsTest(cfg, ex, mode, exe, st) ==
    LET info == cfg.toolchain[st.real]
        path == CandidateOf(mode, st.real, info, exe)
    IN  RState("ok", st.cur, st.real, path, "", None)

\* The second half of the loop body: the exists() test of the candidate path
\* and the move to the fallback.
AfterProbe(cfg, ex, mode, exe, st) ==
    LET info == cfg.toolchain[st.real]
        path == CandidateOf(mode, st.real, info, exe)
    IN  IF path \in ex THEN RState("ok", st.cur, st.real, path, "", None)
        ELSE IF info.fallback # None
             THEN RState("loop", info.fallback, None, NoPath, "", None)
             ELSE RState("err", st.cur, st.real, path, NotFoundKind(mode), None)


\* The whole walk: the loop run until it returns. A walk that has not
\* returned after looking up more names than the map has keys is in a cycle
\* and never returns; its state then still has pc "loop" or "probe".
RECURSIVE Walk(_, _, _, _, _, _, _, _)
Walk(cfg, ex, mode, exe, os, arch, st, fuel) ==
    IF st.pc \in {"ok", "err"} \/ fuel = 0 THEN st
    ELSE Walk(cfg, ex, mode, exe, os, arch,
              IF st.pc = "loop" THEN AfterLookup(cfg, os, arch, st)
              ELSE AfterProbe(cfg, ex, mode, exe, st),
              fuel - 1)

WalkFuel(cfg) == 2 * Cardinality(DOMAIN cfg.toolchain) + 2

RECURSIVE ConfigToolchainFallbackIter(_, _, _, _, _)

\* ConfigToolchainFallbackIter with next() looking the name up directly only,
\* never as the canonical name of a channel
ConfigToolchainFallbackIter_DirectOnly(config, toolchain_name, os, arch, fuel) ==
    IF fuel = 0 \/ toolchain_name = None THEN <<>>
    ELSE IF toolchain_name \notin DOMAIN config.toolchain THEN <<>>
    ELSE LET info == config.toolchain[toolchain_name]
         IN  <<[real |-> toolchain_name, info |-> info]>>
             \o ConfigToolchainFallbackIter(config, info.fallback, os, arch, fuel - 1)

\* config/util.rs: the items that ConfigToolchainFallbackIter::new(config,
\* toolchain_name) yields, at most fuel of them. next() takes the current
\* name (the iterator is finished when there is none), gets the entry under
\* the name itself or else under the canonical name of the channel the name
\* parses to, ends when neither is a key, and goes on with the fallback of
\* the entry found.
ConfigToolchainFallbackIter(config, toolchain_name, os, arch, fuel) ==
    IF fuel = 0 \/ toolchain_name = None THEN <<>>
    ELSE IF toolchain_name \in DOMAIN config.toolchain
    THEN LET info == config.toolchain[toolchain_name]
         IN  <<[real |-> toolchain_name, info |-> info]>>
             \o ConfigToolchainFallbackIter(config, info.fallback, os, arch, fuel - 1)
    ELSE LET ch == Channel_from_str(toolchain_name, os, arch)
         IN  IF ~ch.ok THEN <<>>
             ELSE LET real_name == Channel_to_string(ch.val)
                  IN  IF real_name \notin DOMAIN config.toolchain THEN <<>>
                      ELSE LET info == config.toolchain[real_name]
                           IN  <<[real |-> real_name, info |-> info]>>
                               \o ConfigToolchainFallbackIter(config, info.fallback,
                                                              os, arch, fuel - 1)

try_get_executable(cfg, ex, toolchain, executable_name, os, arch) ==
    Walk(cfg, ex, "exe", executable_name, os, arch, RStart(cfg, toolchain), WalkFuel(cfg))

try_get_core_lib(cfg, ex, toolchain, os, arch) ==
    Walk(cfg, ex, "core", "", os, arch, RStart(cfg, toolchain), WalkFuel(cfg))

\* std::env::var(MOON_CORE_OVERRIDE): Ok when the variable is set to valid
\* Unicode, Err(NotPresent) when it is not set, Err(NotUnicode) when it is
\* set to a value that is not valid Unicode
env_var(v) ==
    IF v = "unicode" THEN Ok(NoVal)
    ELSE IF v = "unset" THEN Err("NotPresent")
    ELSE Err("NotUnicode")

\* executable_entry: the state of the walk that decides the call. pc "ok"
\* with path the program of the Command, pc "err", or a walk that never
\* returns.
executable_entry(cfg, ex, toolchain, executable_name, os, arch, core_set) ==
    LET e == try_get_executable(cfg, ex, toolchain, executable_name, os, arch)
        c == try_get_core_lib(cfg, ex, toolchain, os, arch)
    IN  IF e.pc # "ok" THEN e
        ELSE IF core_set THEN e
        ELSE IF c.pc # "ok" THEN c
        ELSE e

\* ------------------------------------------------------------------------
\* The file system under <home>/lunik/toolchain, and config.rs read/save
\* ------------------------------------------------------------------------

\* A tree is what a directory holds. kind "absent": no such directory;
\* "empty": an empty directory; "tree": the tree staged by install number id,
\* at stage "created" (empty temporary directory), "downloaded" (the two
\* tarballs), "unpacked" (bin/ and lib/ unpacked), "core" (lib/core in
\* place), "perms" (executable bits set) or "bundled" (core compiled).
NoTree == [kind |-> "absent", id |-> 0, stage |-> "", sums |-> ""]
EmptyDir == [kind |-> "empty", id |-> 0, stage |-> "", sums |-> ""]
Tree(id, stage) == [kind |-> "tree", id |-> id, stage |-> stage, sums |-> ""]

\* kind "lib": a directory that holds an empty lib/ and nothing else
LibDir == [kind |-> "lib", id |-> 0, stage |-> "", sums |-> ""]

ExeNames == {"bin/moon", "bin/moonrun"}

\* The links of <home>/bin: for each name the install that created the
\* link, 0 when there is none.
NoLinks == [n \in ExeNames |-> 0]

\* the file names of the relink harness
BinNames == {"moon", "moonrun", "libmoonrt.so", ".so"}

\* no call of ensure_all_executables_are_linked is under way. bin is what
\* each name is in bin_dir ("absent", "file" or "dir"); global is what it is
\* in the user-global bin directory: "absent", "self" (a link to the
\* multiplexer's own executable), "other" (any other file or live link) or
\* "dangling" (a link whose target does not exist); before is global at the
\* start of the call; todo holds the entries that read_dir has yet to yield
RelinkOff ==
    [pc |-> "off", bin |-> [n \in BinNames |-> "absent"],
     global |-> [n \in BinNames |-> "absent"], before |-> [n \in BinNames |-> "absent"],
     todo |-> {}, err |-> ""]

\* <home>/lib and <home>/bin/lsp-server.js before any `default`: neither exists
NoHome == [lib |-> None, lsp |-> None]

\* the files of a tree that the resolver and the relink step look at; the
\* archives are taken to hold moon, moonrun and the core library
TreeFiles(t) ==
    IF t.kind # "tree" THEN {}
    ELSE (IF t.stage \in {"unpacked", "core", "perms", "bundled"} THEN ExeNames ELSE {})
         \cup (IF t.stage \in {"core", "perms", "bundled"} THEN {"lib/core"} ELSE {})

\* the paths for which exists() is true
ExistingPaths(d) == UNION {{Join(k, f) : f \in TreeFiles(d[k])} : k \in DOMAIN d}

\* std::fs::rename of a directory on Unix: the source must exist, and the
\* destination must not exist or be an empty directory
RenameOk(d, from, to) ==
    /\ d[from].kind # "absent"
    /\ d[to].kind \in {"absent", "empty"}

Renamed(d, from, to) == [d EXCEPT ![to] = d[from], ![from] = NoTree]

Removed(d, path) == [d EXCEPT ![path] = NoTree]

Config_default == Config(<<>>, {}, <<"">>)

NoFile == [exists |-> FALSE, cfg |-> Config_default]

\* save_config: the file holds the serialisation of cfg. Every field of
\* Config is written and read back (an empty override map is skipped and
\* defaults to empty), so the file is modelled by the value.
save_config(cfg) == [exists |-> TRUE, cfg |-> cfg]

\* read_config that takes an absent file for an empty configuration
read_config_Defaulted(file) ==
    IF file.exists THEN Ok(file.cfg) ELSE Ok(Config_default)

\* read_config: File::open(config_path)? fails when the file is absent;
\* a file that exists holds what save_config or init-config wrote, which
\* from_reader reads back
read_config(file) ==
    IF file.exists THEN Ok(file.cfg) ELSE Err("No such file or directory")

MapInsert(m, k, v) == [x \in DOMAIN m \cup {k} |-> IF x = k THEN v ELSE m[x]]
MapRemove(m, k) == [x \in DOMAIN m \ {k} |-> m[x]]

\* ------------------------------------------------------------------------
\* self_ops.rs and self_ops/channel.rs: the handlers
\* ------------------------------------------------------------------------

\* the lunik processes; p1 alone runs its commands one after the other, p1 and
\* p2 run theirs concurrently
Procs == {"p1", "p2"}
Sequential == {"p1"}

\* the channel arguments given on the command line
ChanArgs == {<<"latest">>, <<"1.0.0", "linux", "x86_64">>}

\* the names of the directories under <home>/lunik/toolchain
CanonicalNames ==
    {Channel_to_string(Channel_from_str(s, os, "x86_64").val) : s \in ChanArgs, os \in {"linux", "macos"}}
BackupName(channel_name) == channel_name \o <<"backup">>
DirNames == ChanArgs \cup CanonicalNames \cup {BackupName(c) : c \in CanonicalNames}

\* TempDir::with_prefix_in(.., target_parent_dir): a directory of a fresh
\* random name, one per running install
StagingDir(p) == [kind |-> "staging", name |-> <<p>>]

DirKeys == {toolchain_path(n) : n \in DirNames} \cup {StagingDir(p) : p \in Procs}

LocIdle ==
    [caller |-> "", arg |-> None, todo |-> <<>>, old_config |-> Config_default,
     config |-> Config_default, channel |-> None, target |-> NoDir, backup |-> NoDir,
     pre |-> NoTree, backedUp |-> FALSE, armed |-> FALSE, successful |-> FALSE,
     err |-> "", cause |-> "", iid |-> 0]

RetNone == [op |-> "", arg |-> None, ok |-> TRUE, err |-> "", installFailed |-> FALSE]
Ret(op, arg, ok, err, installFailed) ==
    [op |-> op, arg |-> arg, ok |-> ok, err |-> err, installFailed |-> installFailed]

\* the locals of mux::entry, before it runs
LaunchOff ==
    [pc |-> "off", arg |-> None, env |-> None, program |-> NoPath,
     coreSet |-> FALSE, corePath |-> NoPath, child |-> "", code |-> 0,
     result |-> "", exit |-> 0, err |-> ""]

\* the harnesses that a specification does not run stay idle
ParseIdle ==
    /\ pin = <<"">>
    /\ ppc = "idle"
    /\ pres = Err("")
    /\ prend = None
    /\ pback = Err("")

ResolveIdle ==
    /\ rcfg = Config(<<>>, {}, <<"">>)
    /\ rexists = {}
    /\ rmode = "exe"
    /\ rreq = None
    /\ rst = RState("idle", None, None, NoPath, "", None)

InstallIdle ==
    /\ launch = LaunchOff
    /\ cfgFile = NoFile
    /\ dirs = [k \in DirKeys |-> NoTree]
    /\ links = NoLinks
    /\ home = NoHome
    /\ relink = RelinkOff
    /\ pc = [p \in Procs |-> "off"]
    /\ loc = [p \in Procs |-> LocIdle]
    /\ ret = [p \in Procs |-> RetNone]
    /\ snap = [p \in Procs |-> [cfg |-> NoFile, dirs |-> [k \in DirKeys |-> NoTree]]]
    /\ nops = 0
    /\ ninst = 0

\* The state before lunik has run: no configuration file, nothing installed.
Init ==
    /\ ParseIdle
    /\ ResolveIdle
    /\ hostOs \in {"linux", "macos"}
    /\ hostArch = "x86_64"
    /\ envCore \in {"unset", "unicode"}
    /\ launch = LaunchOff
    /\ served \in {"match", "mismatch"}
    /\ cfgFile = NoFile
    /\ dirs = [k \in DirKeys |-> NoTree]
    /\ links = NoLinks
    /\ home = NoHome
    /\ relink = RelinkOff
    /\ pc = [p \in Procs |-> "idle"]
    /\ loc = [p \in Procs |-> LocIdle]
    /\ ret = [p \in Procs |-> RetNone]
    /\ snap = [p \in Procs |-> [cfg |-> NoFile, dirs |-> [k \in DirKeys |-> NoTree]]]
    /\ nops = 0
    /\ ninst = 0

\* a handler starts: the process leaves "idle"
Begin(p) ==
    /\ pc[p] = "idle"
    /\ nops < MaxOps
    /\ nops' = nops + 1
    /\ snap' = [snap EXCEPT ![p] = [cfg |-> cfgFile, dirs |-> dirs]]

\* a handler returns r without having changed anything but its locals
Return(p, r) ==
    /\ pc' = [pc EXCEPT ![p] = "idle"]
    /\ loc' = [loc EXCEPT ![p] = LocIdle]
    /\ ret' = [ret EXCEPT ![p] = r]

\* handle_init_config(false)
HandleInitConfig(p) ==
    /\ Begin(p)
    /\ IF cfgFile.exists
       THEN /\ Return(p, Ret("init-config", None, FALSE, "Config file already exists", FALSE))
            /\ UNCHANGED cfgFile
       ELSE /\ Return(p, Ret("init-config", None, TRUE, "", FALSE))
            /\ cfgFile' = save_config(Config_default)
    /\ UNCHANGED <<dirs, links, ninst, envvars, lvars, hvars, pvars, rvars>>

\* the locals of a call of full_install(config, client, channel, target_dir, ..)
EnterInstall(l, channel_name, target_name) ==
    [l EXCEPT !.channel = channel_name,
              !.target = toolchain_path(target_name),
              !.backup = toolchain_path(BackupName(channel_name)),
              !.pre = dirs[toolchain_path(target_name)],
              !.backedUp = FALSE, !.armed = FALSE, !.successful = FALSE,
              !.err = "", !.cause = "", !.iid = 0]

\* the new configuration with the channel left out of the channels map
NewConfig_NoChannelsEntry(old_config, channel_name) ==
    Config(MapInsert(old_config.toolchain, channel_name, ToolchainInfo_default),
           old_config.channels,
           old_config.default)

\* new_config of handle_add: a clone of old_config with a default entry under
\* channel_name in channels and in toolchain
NewConfig(old_config, channel_name) ==
    Config(MapInsert(old_config.toolchain, channel_name, ToolchainInfo_default),
           old_config.channels \cup {channel_name},
           old_config.default)

\* handle_add up to the speculative save: read_config, parse, the
\* already-exists test and the new configuration
HandleAdd(p, s) ==
    /\ Begin(p)
    /\ LET channel == Channel_from_str(s, hostOs, hostArch)
           channel_name == Channel_to_string(channel.val)
           old_config == read_config(cfgFile).val
           new_config == NewConfig(old_config, channel_name)
       IN  IF ~read_config(cfgFile).ok
           THEN Return(p, Ret("add", s, FALSE, "When reading config", FALSE))
           ELSE IF ~channel.ok
           THEN Return(p, Ret("add", s, FALSE, "parsing toolchain channel", FALSE))
           ELSE IF channel_name \in old_config.channels
           THEN Return(p, Ret("add", s, FALSE, "Toolchain channel already exists", FALSE))
           ELSE /\ pc' = [pc EXCEPT ![p] = "add_save"]
                /\ loc' = [loc EXCEPT ![p] = [LocIdle EXCEPT !.caller = "add", !.arg = s,
                                                            !.old_config = old_config,
                                                            !.config = new_config,
                                                            !.channel = channel_name]]
                /\ UNCHANGED ret
    /\ UNCHANGED <<cfgFile, dirs, links, ninst, envvars, lvars, hvars, pvars, rvars>>

\* save_config(&new_config) and the call of full_install(&new_config, ..,
\* &toolchain_path(&channel_name), ..). Writes of the configuration file are
\* taken not to fail.
AddSave(p) ==
    /\ pc[p] = "add_save"
    /\ cfgFile' = save_config(loc[p].config)
    /\ pc' = [pc EXCEPT ![p] = "fi_mkdir"]
    /\ loc' = [loc EXCEPT ![p] = EnterInstall(loc[p], loc[p].channel, loc[p].channel)]
    /\ UNCHANGED <<dirs, links, ret, snap, nops, ninst, envvars, lvars, hvars, pvars, rvars>>

\* ------------------------------------------------------------------------
\* self_ops/channel.rs: full_install, one action per fallible statement
\* ------------------------------------------------------------------------

\* a statement of full_install succeeds and control moves on
FiGoto(p, to) ==
    /\ pc' = [pc EXCEPT ![p] = to]
    /\ UNCHANGED ret

\* the ? of a statement of full_install: the error is returned, which runs
\* the destructors of the locals alive at that point
FiFail(p, e) ==
    /\ loc' = [loc EXCEPT ![p].err = e]
    /\ FiGoto(p, "fi_unwind")

\* verify_outputs(target_dir, sha_info): every file listed in the manifest is
\* hashed and compared. No statement of full_install calls it: the call stands
\* in a comment (lines 367-374).
verify_outputs(tree) ==
    IF tree.sums = "mismatch" THEN Err("Checksum mismatch for file") ELSE Ok(NoVal)

\* create_dir_all(target_dir)
FiMkdir(p) ==
    /\ pc[p] = "fi_mkdir"
    /\ \/ /\ dirs' = IF dirs[loc[p].target].kind = "absent"
                     THEN [dirs EXCEPT ![loc[p].target] = EmptyDir]
                     ELSE dirs
          /\ FiGoto(p, "fi_tempdir")
          /\ UNCHANGED loc
       \/ /\ FiFail(p, "Failed to create the installation dir")
          /\ UNCHANGED dirs
    /\ UNCHANGED <<cfgFile, links, snap, nops, ninst, envvars, lvars, hvars, pvars, rvars>>

\* TempDir::with_prefix_in(.., target_parent_dir)
FiTempdir(p) ==
    /\ pc[p] = "fi_tempdir"
    /\ \/ /\ ninst' = ninst + 1
          /\ dirs' = [dirs EXCEPT ![StagingDir(p)] = Tree(ninst + 1, "created")]
          /\ loc' = [loc EXCEPT ![p].iid = ninst + 1]
          /\ FiGoto(p, "fi_download")
       \/ /\ FiFail(p, "tempdir")
          /\ UNCHANGED <<dirs, ninst>>
    /\ UNCHANGED <<cfgFile, links, snap, nops, envvars, lvars, hvars, pvars, rvars>>

\* a statement that brings the staging directory to the next stage, or fails
\* and leaves it as it is
FiStage(p, at, stage, to, e) ==
    /\ pc[p] = at
    /\ \/ /\ dirs' = [dirs EXCEPT ![StagingDir(p)].stage = stage]
          /\ FiGoto(p, to)
          /\ UNCHANGED loc
       \/ /\ FiFail(p, e)
          /\ UNCHANGED dirs
    /\ UNCHANGED <<cfgFile, links, snap, nops, ninst, envvars, lvars, hvars, pvars, rvars>>

\* the two download_file calls: the staging directory holds the archives the
\* server serves
FiDownload(p) ==
    /\ pc[p] = "fi_download"
    /\ \/ /\ dirs' = [dirs EXCEPT ![StagingDir(p)].stage = "downloaded",
                                  ![StagingDir(p)].sums = served]
          /\ FiGoto(p, "fi_unpack")
          /\ UNCHANGED loc
       \/ /\ FiFail(p, "Failed to download MoonBit binaries")
          /\ UNCHANGED dirs
    /\ UNCHANGED <<cfgFile, links, snap, nops, ninst, envvars, lvars, hvars, pvars, rvars>>

\* the two untar calls
FiUnpack(p) ==
    FiStage(p, "fi_unpack", "unpacked", "fi_core", "Failed to unpack MoonBit files")

\* the rename of lib/core-<ref> to lib/core
FiCoreRename(p) ==
    FiStage(p, "fi_core", "core", "fi_perms", "rename core")

\* add_permissions_recursive(&temp_bin_dir)
FiPerms(p) ==
    FiStage(p, "fi_perms", "perms", "fi_rm_backup", "Failed to add permissions recursively")

\* the rollback guard is declared, then a backup directory left by an
\* earlier run is removed
FiRmBackup(p) ==
    /\ pc[p] = "fi_rm_backup"
    /\ \/ /\ dirs' = Removed(dirs, loc[p].backup)
          /\ loc' = [loc EXCEPT ![p].armed = TRUE]
          /\ FiGoto(p, "fi_backup")
       \/ /\ dirs[loc[p].backup].kind # "absent"
          /\ loc' = [loc EXCEPT ![p].armed = TRUE, ![p].err = "Failed to remove old bin backup dir"]
          /\ FiGoto(p, "fi_unwind")
          /\ UNCHANGED dirs
    /\ UNCHANGED <<cfgFile, links, snap, nops, ninst, envvars, lvars, hvars, pvars, rvars>>

\* rename(target_dir, &backup_dir).ok(): a failure is ignored
FiBackup(p) ==
    /\ pc[p] = "fi_backup"
    /\ \/ /\ RenameOk(dirs, loc[p].target, loc[p].backup)
          /\ dirs' = Renamed(dirs, loc[p].target, loc[p].backup)
          /\ loc' = [loc EXCEPT ![p].backedUp = TRUE]
       \/ UNCHANGED <<dirs, loc>>
    /\ FiGoto(p, "fi_move")
    /\ UNCHANGED <<cfgFile, links, snap, nops, ninst, envvars, lvars, hvars, pvars, rvars>>

\* the move with the backup removed as soon as the new tree is in place
FiMove_DropsBackup(p) ==
    /\ pc[p] = "fi_move"
    /\ \/ /\ RenameOk(dirs, StagingDir(p), loc[p].target)
          /\ dirs' = Removed(Renamed(dirs, StagingDir(p), loc[p].target), loc[p].backup)
          /\ FiGoto(p, "fi_relink")
          /\ UNCHANGED loc
       \/ /\ FiFail(p, "Failed to move new directories")
          /\ UNCHANGED dirs
    /\ UNCHANGED <<cfgFile, links, snap, nops, ninst, envvars, lvars, hvars, pvars, rvars>>

\* rename(tempdir, target_dir)
FiMove(p) ==
    /\ pc[p] = "fi_move"
    /\ \/ /\ RenameOk(dirs, StagingDir(p), loc[p].target)
          /\ dirs' = Renamed(dirs, StagingDir(p), loc[p].target)
          /\ FiGoto(p, "fi_relink")
          /\ UNCHANGED loc
       \/ /\ FiFail(p, "Failed to move new directories")
          /\ UNCHANGED dirs
    /\ UNCHANGED <<cfgFile, links, snap, nops, ninst, envvars, lvars, hvars, pvars, rvars>>

\* the loop of ensure_all_executables_are_linked with every link made anew
ensure_all_executables_are_linked_Relink(lk, exes, id) ==
    [n \in ExeNames |-> IF n \in exes THEN id ELSE lk[n]]

\* the loop of ensure_all_executables_are_linked over the entries exes of
\* bin_dir: a link is made, and given its permissions, only when
\* exe_path.exists() is false
ensure_all_executables_are_linked(lk, exes, id) ==
    [n \in ExeNames |-> IF n \in exes /\ lk[n] = 0 THEN id ELSE lk[n]]

\* ensure_all_executables_are_linked(&bin_dir) in full_install. It fails
\* when create_dir_all or read_dir fails, before any link is made, or when
\* symlink_self_to or add_executable_permissions fails for an entry that is
\* not linked yet, after the links of the entries before it were made.
FiRelink(p) ==
    /\ pc[p] = "fi_relink"
    /\ LET exes == TreeFiles(dirs[loc[p].target]) \cap ExeNames
           e == "Failed to symlink some executables to bin directory"
       IN  \/ /\ exes # {}
              /\ links' = ensure_all_executables_are_linked(links, exes, loc[p].iid)
              /\ FiGoto(p, "fi_probe_moon")
              /\ UNCHANGED loc
           \/ /\ links' = links
              /\ loc' = [loc EXCEPT ![p].err = e, ![p].cause = "read_dir"]
              /\ FiGoto(p, "fi_unwind")
           \/ /\ \E n \in exes : \E done \in SUBSET (exes \ {n}) :
                    /\ links[n] = 0
                    /\ links' = ensure_all_executables_are_linked(links, done, loc[p].iid)
              /\ loc' = [loc EXCEPT ![p].err = e, ![p].cause = "symlink"]
              /\ FiGoto(p, "fi_unwind")
    /\ UNCHANGED <<cfgFile, dirs, snap, nops, ninst, envvars, lvars, hvars, pvars, rvars>>

\* executable_entry(config, Some(&channel.to_string()), exe) and the run of
\* the command it gives; no step while the resolution does not return
FiProbe(p, at, exe, to) ==
    /\ pc[p] = at
    /\ LET e == executable_entry(loc[p].config, ExistingPaths(dirs), loc[p].channel, exe,
                                 hostOs, hostArch, env_var(envCore).ok)
       IN  \/ /\ e.pc = "ok"
              /\ FiGoto(p, to)
              /\ UNCHANGED loc
           \/ /\ e.pc = "ok"
              /\ FiFail(p, "Failed to run")
           \/ /\ e.pc = "err"
              /\ FiFail(p, "Failed to find executable")
    /\ UNCHANGED <<cfgFile, dirs, links, snap, nops, ninst, envvars, lvars, hvars, pvars, rvars>>

FiProbeMoon(p) == FiProbe(p, "fi_probe_moon", "bin/moon", "fi_probe_moonrun")

FiProbeMoonrun(p) == FiProbe(p, "fi_probe_moonrun", "bin/moonrun", "fi_bundle")

\* run_bundle_core with the result of the command not looked at
FiBundle_IgnoresStatus(p) ==
    /\ pc[p] = "fi_bundle"
    /\ LET e == executable_entry(loc[p].config, ExistingPaths(dirs), loc[p].channel, "bin/moon",
                                 hostOs, hostArch, env_var(envCore).ok)
       IN  \/ /\ e.pc = "ok"
              /\ Join(loc[p].target, "lib/core") \in ExistingPaths(dirs)
              /\ dirs' = [dirs EXCEPT ![loc[p].target].stage = "bundled"]
              /\ FiGoto(p, "fi_commit")
              /\ UNCHANGED loc
           \/ /\ e.pc \in {"ok", "err"}
              /\ FiGoto(p, "fi_commit")
              /\ UNCHANGED <<dirs, loc>>
    /\ UNCHANGED <<cfgFile, links, snap, nops, ninst, envvars, lvars, hvars, pvars, rvars>>

\* run_bundle_core(config, &lib_dir.join("core"), channel): moon is resolved
\* again and `moon bundle` is run in <target>/lib/core
FiBundle(p) ==
    /\ pc[p] = "fi_bundle"
    /\ LET e == executable_entry(loc[p].config, ExistingPaths(dirs), loc[p].channel, "bin/moon",
                                 hostOs, hostArch, env_var(envCore).ok)
       IN  \/ /\ e.pc = "ok"
              /\ Join(loc[p].target, "lib/core") \in ExistingPaths(dirs)
              /\ dirs' = [dirs EXCEPT ![loc[p].target].stage = "bundled"]
              /\ FiGoto(p, "fi_commit")
              /\ UNCHANGED loc
           \/ /\ e.pc \in {"ok", "err"}
              /\ FiFail(p, "Failed to compile core libraries")
              /\ UNCHANGED dirs
    /\ UNCHANGED <<cfgFile, links, snap, nops, ninst, envvars, lvars, hvars, pvars, rvars>>

\* update_successful.set(true) and the removal of the backup
FiCommit(p) ==
    /\ pc[p] = "fi_commit"
    /\ \/ /\ dirs' = Removed(dirs, loc[p].backup)
          /\ loc' = [loc EXCEPT ![p].successful = TRUE]
       \/ /\ dirs[loc[p].backup].kind # "absent"
          /\ loc' = [loc EXCEPT ![p].successful = TRUE, ![p].err = "Failed to remove backup dir"]
          /\ UNCHANGED dirs
    /\ FiGoto(p, "fi_unwind")
    /\ UNCHANGED <<cfgFile, links, snap, nops, ninst, envvars, lvars, hvars, pvars, rvars>>

\* the rollback guard: rename(&backup_dir, target_dir).ok()
Rollback(d, l) ==
    IF l.armed /\ ~l.successful /\ RenameOk(d, l.backup, l.target)
    THEN Renamed(d, l.backup, l.target)
    ELSE d

\* the drop of tempdir_: the staging directory is removed if it is still there
DropTempDir(d, p, l) == IF l.iid # 0 THEN Removed(d, StagingDir(p)) ELSE d

\* the return of full_install: the guard runs, then tempdir_ is dropped
FiUnwind(p) ==
    /\ pc[p] = "fi_unwind"
    /\ dirs' = DropTempDir(Rollback(dirs, loc[p]), p, loc[p])
    /\ FiGoto(p, "fi_ret")
    /\ UNCHANGED <<cfgFile, links, loc, snap, nops, ninst, envvars, lvars, hvars, pvars, rvars>>

\* AddReturn with the configuration not restored on failure
AddReturn_NoRestore(p) ==
    /\ pc[p] = "fi_ret"
    /\ loc[p].caller = "add"
    /\ IF loc[p].err = ""
       THEN Return(p, Ret("add", loc[p].arg, TRUE, "", FALSE))
       ELSE Return(p, Ret("add", loc[p].arg, FALSE, loc[p].err, TRUE))
    /\ UNCHANGED <<cfgFile, dirs, links, snap, nops, ninst, envvars, lvars, hvars, pvars, rvars>>

\* the match on the result of full_install in handle_add
AddReturn(p) ==
    /\ pc[p] = "fi_ret"
    /\ loc[p].caller = "add"
    /\ IF loc[p].err = ""
       THEN /\ Return(p, Ret("add", loc[p].arg, TRUE, "", FALSE))
            /\ UNCHANGED cfgFile
       ELSE /\ cfgFile' = save_config(loc[p].old_config)
            /\ Return(p, Ret("add", loc[p].arg, FALSE, loc[p].err, TRUE))
    /\ UNCHANGED <<dirs, links, snap, nops, ninst, envvars, lvars, hvars, pvars, rvars>>

\* the orders in which the keys of a HashMap may be iterated
OrdersOf(S) ==
    {q \in [1..Cardinality(S) -> S] : \A i, j \in 1..Cardinality(S) : i # j => q[i] # q[j]}

\* handle_update up to the loop: read_config and the list of channels
HandleUpdate(p, args) ==
    /\ Begin(p)
    /\ IF ~read_config(cfgFile).ok
       THEN Return(p, Ret("update", args, FALSE, "When reading config", FALSE))
       ELSE /\ \E channels \in (IF args = <<>> THEN OrdersOf(read_config(cfgFile).val.channels) ELSE {args}) :
                  loc' = [loc EXCEPT ![p] = [LocIdle EXCEPT !.caller = "update", !.arg = args,
                                                             !.todo = channels,
                                                             !.config = read_config(cfgFile).val]]
            /\ pc' = [pc EXCEPT ![p] = "upd_loop"]
            /\ UNCHANGED ret
    /\ UNCHANGED <<cfgFile, dirs, links, ninst, envvars, lvars, hvars, pvars, rvars>>

\* the head of the loop of handle_update: parse the next channel and call
\* full_install(&config, .., &toolchain_path(&channel), ..)
UpdateLoop(p) ==
    /\ pc[p] = "upd_loop"
    /\ IF loc[p].todo = <<>>
       THEN Return(p, Ret("update", loc[p].arg, TRUE, "", FALSE))
       ELSE LET channel == Head(loc[p].todo)
                toolchain == Channel_from_str(channel, hostOs, hostArch)
            IN  IF ~toolchain.ok
                THEN Return(p, Ret("update", loc[p].arg, FALSE, "parsing toolchain channel", FALSE))
                ELSE /\ loc' = [loc EXCEPT ![p] = EnterInstall(loc[p], Channel_to_string(toolchain.val), channel)]
                     /\ pc' = [pc EXCEPT ![p] = "fi_mkdir"]
                     /\ UNCHANGED ret
    /\ UNCHANGED <<cfgFile, dirs, links, snap, nops, ninst, envvars, lvars, hvars, pvars, rvars>>

\* handle_update with the result of full_install dropped
UpdateReturn_DropsResult(p) ==
    /\ pc[p] = "fi_ret"
    /\ loc[p].caller = "update"
    /\ loc' = [loc EXCEPT ![p].todo = Tail(loc[p].todo)]
    /\ pc' = [pc EXCEPT ![p] = "upd_loop"]
    /\ UNCHANGED ret
    /\ UNCHANGED <<cfgFile, dirs, links, snap, nops, ninst, envvars, lvars, hvars, pvars, rvars>>

\* the ? on the result of full_install in handle_update
UpdateReturn(p) ==
    /\ pc[p] = "fi_ret"
    /\ loc[p].caller = "update"
    /\ IF loc[p].err # ""
       THEN Return(p, Ret("update", loc[p].arg, FALSE, loc[p].err, TRUE))
       ELSE /\ loc' = [loc EXCEPT ![p].todo = Tail(loc[p].todo)]
            /\ pc' = [pc EXCEPT ![p] = "upd_loop"]
            /\ UNCHANGED ret
    /\ UNCHANGED <<cfgFile, dirs, links, snap, nops, ninst, envvars, lvars, hvars, pvars, rvars>>

\* handle_remove up to the removal of the directory
HandleRemove(p, s) ==
    /\ Begin(p)
    /\ LET channel == Channel_from_str(s, hostOs, hostArch)
           channel_name == Channel_to_string(channel.val)
           config == read_config(cfgFile)
       IN  IF ~config.ok
           THEN Return(p, Ret("remove", s, FALSE, "When reading config", FALSE))
           ELSE IF ~channel.ok
           THEN Return(p, Ret("remove", s, FALSE, "When parsing toolchain channel", FALSE))
           ELSE IF channel_name \notin config.val.channels
           THEN Return(p, Ret("remove", s, FALSE, "Toolchain channel not found", FALSE))
           ELSE /\ pc' = [pc EXCEPT ![p] = "rm_dir"]
                /\ loc' = [loc EXCEPT ![p] = [LocIdle EXCEPT !.caller = "remove", !.arg = s,
                                                            !.config = config.val,
                                                            !.channel = channel_name]]
                /\ UNCHANGED ret
    /\ UNCHANGED <<cfgFile, dirs, links, ninst, envvars, lvars, hvars, pvars, rvars>>

\* remove_dir_all(toolchain_path(&cmd.channel)) when it exists
RemoveDir(p) ==
    /\ pc[p] = "rm_dir"
    /\ LET channel_path == toolchain_path(loc[p].arg)
       IN  \/ /\ dirs' = Removed(dirs, channel_path)
              /\ pc' = [pc EXCEPT ![p] = "rm_save"]
              /\ UNCHANGED <<loc, ret>>
           \/ /\ dirs[channel_path].kind # "absent"
              /\ Return(p, Ret("remove", loc[p].arg, FALSE, "remove_dir_all", FALSE))
              /\ UNCHANGED dirs
    /\ UNCHANGED <<cfgFile, links, snap, nops, ninst, envvars, lvars, hvars, pvars, rvars>>

\* handle_remove with the entry of the channels map kept
RemoveSave_KeepsChannelsEntry(p) ==
    /\ pc[p] = "rm_save"
    /\ LET config == loc[p].config
       IN  cfgFile' = save_config(Config(MapRemove(config.toolchain, loc[p].channel),
                                         config.channels,
                                         config.default))
    /\ Return(p, Ret("remove", loc[p].arg, TRUE, "", FALSE))
    /\ UNCHANGED <<dirs, links, snap, nops, ninst, envvars, lvars, hvars, pvars, rvars>>

\* the removal of the two entries and save_config in handle_remove
RemoveSave(p) ==
    /\ pc[p] = "rm_save"
    /\ LET config == loc[p].config
       IN  cfgFile' = save_config(Config(MapRemove(config.toolchain, loc[p].channel),
                                         config.channels \ {loc[p].channel},
                                         config.default))
    /\ Return(p, Ret("remove", loc[p].arg, TRUE, "", FALSE))
    /\ UNCHANGED <<dirs, links, snap, nops, ninst, envvars, lvars, hvars, pvars, rvars>>

\* ------------------------------------------------------------------------
\* Resolver harness: one resolution over an arbitrary configuration and
\* file system, one loop iteration per step.
\* ------------------------------------------------------------------------

NameA == <<"a">>
NameB == <<"b">>
NameLatest == <<"latest">>
NameLatestFull == <<"latest", "linux", "x86_64">>
RootR == CustomDir("R")
OverrideO == CustomPath("O")
CorePathC == CustomPath("C")
ExeMoon == "bin/moon"

FallbackOptions == {None, NameA, NameB, NameLatest}

\* the entries a key may have; per-executable overrides are drawn for the
\* executable walk and core_path for the support-library walk
OverrideOptions(mode) == IF mode = "exe" THEN {{}, {<<ExeMoon, OverrideO>>}} ELSE {{}}
CorePathOptions(mode) == IF mode = "core" THEN {NoPath, CorePathC} ELSE {NoPath}

Absent == [absent |-> TRUE]

InfosOf(mode, k) ==
    IF k = NameA
    THEN {ToolchainInfo(f, r, o, c) :
            f \in FallbackOptions, r \in {NoDir, RootR},
            o \in OverrideOptions(mode), c \in CorePathOptions(mode)}
    ELSE IF k = NameB
    THEN {ToolchainInfo(f, NoDir, o, NoPath) :
            f \in FallbackOptions \ {NameB}, o \in OverrideOptions(mode)}
    ELSE IF k = NameLatestFull
    THEN {ToolchainInfo(f, NoDir, {}, NoPath) : f \in {None, NameA}}
    ELSE {ToolchainInfo(None, NoDir, {}, NoPath)}

\* the keys of the map: two plain names, a canonical channel name, and the
\* short channel name whose canonical form that is
RKeys == {NameA, NameB, NameLatestFull, NameLatest}

\* the toolchain map with the entries of a that are not Absent
MapOf(a) == [k \in {k \in DOMAIN a : a[k] # Absent} |-> a[k]]

RMaps(mode) ==
    {MapOf(a) : a \in {a \in [RKeys -> UNION {{Absent} \cup InfosOf(mode, k) : k \in RKeys}] :
                          \A k \in RKeys : a[k] \in {Absent} \cup InfosOf(mode, k)}}

RPaths(mode) ==
    IF mode = "exe"
    THEN {Join(toolchain_path(NameA), ExeMoon), Join(toolchain_path(NameB), ExeMoon),
          Join(toolchain_path(NameLatestFull), ExeMoon), Join(toolchain_path(NameLatest), ExeMoon),
          Join(RootR, ExeMoon), OverrideO}
    ELSE {Join(toolchain_path(NameA), "lib/core"), Join(toolchain_path(NameB), "lib/core"),
          Join(toolchain_path(NameLatestFull), "lib/core"),
          Join(toolchain_path(NameLatest), "lib/core"), Join(RootR, "lib/core"), CorePathC}

InitResolve ==
    /\ ParseIdle
    /\ InstallIdle
    /\ hostOs = "linux"
    /\ hostArch = "x86_64"
    /\ envCore = "unset"
    /\ served = "match"
    /\ rmode \in {"exe", "core"}
    /\ rreq \in {None, NameA, NameB, NameLatest}
    /\ rcfg \in {Config(m, {}, d) : m \in RMaps(rmode),
                                     d \in IF rreq = None THEN {<<"">>, NameA} ELSE {<<"">>}}
    /\ rexists \in SUBSET RPaths(rmode)
    /\ rst = RStart(rcfg, rreq)

RLooked == AfterLookup(rcfg, hostOs, hostArch, rst)
RProbed == AfterProbe(rcfg, rexists, rmode, ExeMoon, rst)

\* the lookup finds an entry
RLookup ==
    /\ rst.pc = "loop"
    /\ RLooked.pc = "probe"
    /\ rst' = RLooked
    /\ UNCHANGED <<rcfg, rexists, rmode, rreq, envvars, lvars, hvars, pvars, ivars>>

\* the lookup fails: return Err("Toolchain not found: ...")
RLookupFail ==
    /\ rst.pc = "loop"
    /\ RLooked.pc = "err"
    /\ rst' = RLooked
    /\ UNCHANGED <<rcfg, rexists, rmode, rreq, envvars, lvars, hvars, pvars, ivars>>

\* the candidate exists: return Ok(path)
RFound ==
    /\ rst.pc = "probe"
    /\ RProbed.pc = "ok"
    /\ rst' = RProbed
    /\ UNCHANGED <<rcfg, rexists, rmode, rreq, envvars, lvars, hvars, pvars, ivars>>

\* the candidate does not exist and there is a fallback: go round the loop
RFallback ==
    /\ rst.pc = "probe"
    /\ RProbed.pc = "loop"
    /\ rst' = RProbed
    /\ UNCHANGED <<rcfg, rexists, rmode, rreq, envvars, lvars, hvars, pvars, ivars>>

\* the candidate does not exist and there is no fallback: return Err
RMissing ==
    /\ rst.pc = "probe"
    /\ RProbed.pc = "err"
    /\ rst' = RProbed
    /\ UNCHANGED <<rcfg, rexists, rmode, rreq, envvars, lvars, hvars, pvars, ivars>>

NextResolve == RLookup \/ RLookupFail \/ RFound \/ RFallback \/ RMissing

\* the support-library harness: try_get_core_lib over configurations whose
\* entries also have per-executable overrides, and disks that also hold
\* executables
CoreInfosOf(k) ==
    IF k = NameA
    THEN {ToolchainInfo(f, r, o, c) :
            f \in FallbackOptions, r \in {NoDir, RootR},
            o \in {{}, {<<ExeMoon, OverrideO>>}}, c \in {NoPath, CorePathC}}
    ELSE IF k = NameB
    THEN {ToolchainInfo(f, NoDir, {}, NoPath) : f \in FallbackOptions \ {NameB}}
    ELSE {ToolchainInfo(f, NoDir, {}, NoPath) : f \in {None, NameA}}

CoreKeys == {NameA, NameB, NameLatestFull}

CoreMaps ==
    {MapOf(a) : a \in {a \in [CoreKeys -> UNION {{Absent} \cup CoreInfosOf(k) : k \in CoreKeys}] :
                          \A k \in CoreKeys : a[k] \in {Absent} \cup CoreInfosOf(k)}}

CorePaths ==
    {Join(toolchain_path(NameA), "lib/core"), Join(toolchain_path(NameB), "lib/core"),
     Join(toolchain_path(NameLatestFull), "lib/core"), Join(RootR, "lib/core"), CorePathC,
     OverrideO, Join(toolchain_path(NameB), ExeMoon)}

InitCore ==
    /\ ParseIdle
    /\ InstallIdle
    /\ hostOs = "linux"
    /\ hostArch = "x86_64"
    /\ envCore = "unset"
    /\ served = "match"
    /\ rmode = "core"
    /\ rreq \in {None, NameA, NameB, NameLatest}
    /\ rcfg \in {Config(m, {}, d) : m \in CoreMaps,
                                     d \in IF rreq = None THEN {<<"">>, NameA} ELSE {<<"">>}}
    /\ rexists \in SUBSET CorePaths
    /\ rst = RStart(rcfg, rreq)


\* ------------------------------------------------------------------------
\* Parser harness: parse an arbitrary input on an arbitrary platform, then
\* render the parsed value.
\* ------------------------------------------------------------------------

\* ------------------------------------------------------------------------
\* Relink harness: one call of ensure_all_executables_are_linked(bin_dir),
\* over an arbitrary bin_dir and an arbitrary user-global bin directory.
\* ------------------------------------------------------------------------

EXECUTABLE_SUFFIX_BLACKLIST == {".so", ".dylib", ".dll"}

\* Path::ends_with(suffix) for bin_dir/name and a suffix of one component:
\* whole components are compared, so the file name must be the suffix
Path_ends_with(name, suffix) == name = suffix

\* can_be_executable on Unix for an entry of bin_dir
can_be_executable(kind, name) ==
    /\ kind = "file"
    /\ ~\E suffix \in EXECUTABLE_SUFFIX_BLACKLIST : Path_ends_with(name, suffix)

\* Path::exists follows links: a link whose target is missing does not exist
Path_exists(entry) == entry \in {"self", "other"}

\* the entry that symlink_self_to leaves at a free path: a link to
\* std::env::current_exe()
symlink_self_to == "self"

InitRelink ==
    /\ ParseIdle
    /\ ResolveIdle
    /\ hostOs = "linux"
    /\ hostArch = "x86_64"
    /\ envCore = "unset"
    /\ served = "match"
    /\ launch = LaunchOff
    /\ cfgFile = NoFile
    /\ dirs = [k \in DirKeys |-> NoTree]
    /\ links = NoLinks
    /\ home = NoHome
    /\ pc = [p \in Procs |-> "off"]
    /\ loc = [p \in Procs |-> LocIdle]
    /\ ret = [p \in Procs |-> RetNone]
    /\ snap = [p \in Procs |-> [cfg |-> NoFile, dirs |-> [k \in DirKeys |-> NoTree]]]
    /\ nops = 0
    /\ ninst = 0
    /\ \E b \in [BinNames -> {"absent", "file", "dir"}] :
       \E g \in [BinNames -> {"absent", "self", "other", "dangling"}] :
          relink = [pc |-> "start", bin |-> b, global |-> g, before |-> g,
                    todo |-> {}, err |-> ""]

RelinkFail(e) ==
    /\ relink' = [relink EXCEPT !.pc = "err", !.err = e]
    /\ UNCHANGED <<home, envvars, lvars, pvars, rvars, ivars>>

\* create_dir_all(&moon_bin_dir) and read_dir(bin_dir)
RelinkOpen ==
    /\ relink.pc = "start"
    /\ relink' = [relink EXCEPT !.pc = "loop",
                                !.todo = {n \in BinNames : relink.bin[n] # "absent"}]
    /\ UNCHANGED <<home, envvars, lvars, pvars, rvars, ivars>>

RelinkOpenFails ==
    /\ relink.pc = "start"
    /\ \E e \in {"Failed to create the bin directory", "read_dir"} : RelinkFail(e)

\* the turn of the loop that links without the exists() test
RelinkEntry_Overwrites(n) ==
    /\ relink.pc = "loop"
    /\ n \in relink.todo
    /\ can_be_executable(relink.bin[n], n)
    /\ relink' = [relink EXCEPT !.global[n] = symlink_self_to, !.todo = relink.todo \ {n}]
    /\ UNCHANGED <<home, envvars, lvars, pvars, rvars, ivars>>

\* one turn of the loop that makes a link: the entry is a plausible
\* executable and exe_path does not exist; symlink_self_to and
\* add_executable_permissions succeed
RelinkEntry(n) ==
    /\ relink.pc = "loop"
    /\ n \in relink.todo
    /\ can_be_executable(relink.bin[n], n)
    /\ relink.global[n] = "absent"
    /\ relink' = [relink EXCEPT !.global[n] = symlink_self_to, !.todo = relink.todo \ {n}]
    /\ UNCHANGED <<home, envvars, lvars, pvars, rvars, ivars>>

\* one turn of the loop that makes no link: the entry is no plausible
\* executable, or exe_path exists
RelinkSkip(n) ==
    /\ relink.pc = "loop"
    /\ n \in relink.todo
    /\ ~can_be_executable(relink.bin[n], n) \/ Path_exists(relink.global[n])
    /\ relink' = [relink EXCEPT !.todo = relink.todo \ {n}]
    /\ UNCHANGED <<home, envvars, lvars, pvars, rvars, ivars>>

\* one turn of the loop that returns an error: symlink_self_to fails, on a
\* free path for a reason of the system and on a dangling link always
\* (EEXIST), or add_executable_permissions fails after the link was made
RelinkEntryFails(n) ==
    /\ relink.pc = "loop"
    /\ n \in relink.todo
    /\ can_be_executable(relink.bin[n], n)
    /\ ~Path_exists(relink.global[n])
    /\ \/ /\ relink' = [relink EXCEPT !.pc = "err", !.err = "Failed to create symlink"]
       \/ /\ relink.global[n] = "absent"
          /\ relink' = [relink EXCEPT !.pc = "err", !.global[n] = symlink_self_to,
                                      !.err = "Failed to add executable permissions"]
    /\ UNCHANGED <<home, envvars, lvars, pvars, rvars, ivars>>

\* let entry = entry?
RelinkReadFails ==
    /\ relink.pc = "loop"
    /\ relink.todo # {}
    /\ RelinkFail("read_dir")

\* Ok(()) after the loop
RelinkReturn ==
    /\ relink.pc = "loop"
    /\ relink.todo = {}
    /\ relink' = [relink EXCEPT !.pc = "ok"]
    /\ UNCHANGED <<home, envvars, lvars, pvars, rvars, ivars>>

NextRelink ==
    \/ RelinkOpen
    \/ RelinkOpenFails
    \/ \E n \in BinNames : RelinkEntry(n)
    \/ \E n \in BinNames : RelinkSkip(n)
    \/ \E n \in BinNames : RelinkEntryFails(n)
    \/ RelinkReadFails
    \/ RelinkReturn

InitParse ==
    /\ hostOs \in OsNames
    /\ hostArch \in ArchNames
    /\ envCore = "unset"
    /\ served = "match"
    /\ InstallIdle
    /\ pin \in Strings(MaxSegs)
    /\ ppc = "start"
    /\ pres = Err("")
    /\ prend = None
    /\ pback = Err("")
    /\ ResolveIdle

DoParse ==
    /\ ppc = "start"
    /\ pres' = Channel_from_str(pin, hostOs, hostArch)
    /\ ppc' = "parsed"
    /\ UNCHANGED <<pin, prend, pback, envvars, lvars, hvars, rvars, ivars>>

DoRender ==
    /\ ppc = "parsed"
    /\ pres.ok
    /\ prend' = Channel_to_string(pres.val)
    /\ ppc' = "rendered"
    /\ UNCHANGED <<pin, pres, pback, envvars, lvars, hvars, rvars, ivars>>

NextParse == DoParse \/ DoRender

\* ------------------------------------------------------------------------
\* Launcher harness: mux::entry for one invocation of a proxied executable,
\* over an arbitrary configuration file, file system and environment.
\* ------------------------------------------------------------------------

\* largest exit code of the child
MaxCode == 2

\* the toolchain entries of the configurations of the harness
LaunchInfos(k) ==
    IF k = NameA
    THEN {ToolchainInfo(f, NoDir, {}, c) : f \in {None, NameB}, c \in {NoPath, CorePathC}}
    ELSE {ToolchainInfo(f, NoDir, {}, NoPath) : f \in {None, NameA}}

LaunchMaps ==
    {MapOf(a) : a \in {a \in [{NameA, NameB} -> UNION {{Absent} \cup LaunchInfos(k) : k \in {NameA, NameB}}] :
                          \A k \in {NameA, NameB} : a[k] \in {Absent} \cup LaunchInfos(k)}}

LaunchPaths ==
    {Join(toolchain_path(NameA), ExeMoon), Join(toolchain_path(NameB), ExeMoon),
     Join(toolchain_path(NameA), "lib/core"), Join(toolchain_path(NameB), "lib/core"),
     CorePathC}

InitLaunch ==
    /\ ParseIdle
    /\ hostOs = "linux"
    /\ hostArch = "x86_64"
    /\ served = "match"
    /\ envCore \in {"unset", "unicode", "not_unicode"}
    /\ cfgFile \in {NoFile} \cup {save_config(Config(m, {}, d)) : m \in LaunchMaps, d \in {<<"">>, NameA}}
    /\ dirs = [k \in DirKeys |-> NoTree]
    /\ links = NoLinks
    /\ home = NoHome
    /\ relink = RelinkOff
    /\ pc = [p \in Procs |-> "off"]
    /\ loc = [p \in Procs |-> LocIdle]
    /\ ret = [p \in Procs |-> RetNone]
    /\ snap = [p \in Procs |-> [cfg |-> NoFile, dirs |-> [k \in DirKeys |-> NoTree]]]
    /\ nops = 0
    /\ ninst = 0
    /\ rcfg = Config(<<>>, {}, <<"">>)
    /\ rmode = "exe"
    /\ rreq = None
    /\ rst = RState("idle", None, None, NoPath, "", None)
    /\ rexists \in SUBSET LaunchPaths
    /\ launch \in {[LaunchOff EXCEPT !.pc = "start", !.arg = a, !.env = e] :
                      a \in {None, NameA}, e \in {None, NameB}}

\* argv[0] stripped of '+' when it starts with one, or else LUNIK_TOOLCHAIN
mux_toolchain(l) == IF l.arg # None THEN l.arg ELSE l.env

\* the paths for which exists() is true when the launcher looks: those of
\* the harness and those of the trees on the disk
LaunchDisk == rexists \cup ExistingPaths(dirs)

\* the Command that executable_entry builds: the walk that decides it
LaunchCommand ==
    executable_entry(read_config(cfgFile).val, LaunchDisk, mux_toolchain(launch), ExeMoon,
                     hostOs, hostArch, env_var(envCore).ok)

\* read_config()?
LaunchReadConfig ==
    /\ launch.pc = "start"
    /\ launch' = IF read_config(cfgFile).ok
                 THEN [launch EXCEPT !.pc = "resolve"]
                 ELSE [launch EXCEPT !.pc = "done", !.result = "err", !.err = "read_config"]
    /\ UNCHANGED <<envvars, hvars, pvars, rvars, ivars>>

\* executable_entry(&cfg, mux_toolchain.as_deref(), binary_name)?: the
\* program, and MOON_CORE_OVERRIDE set on the child when env::var is Err
LaunchResolve ==
    /\ launch.pc = "resolve"
    /\ LaunchCommand.pc \in {"ok", "err"}
    /\ launch' =
         IF LaunchCommand.pc = "err"
         THEN [launch EXCEPT !.pc = "done", !.result = "err", !.err = LaunchCommand.err.kind]
         ELSE [launch EXCEPT !.pc = "spawn", !.program = LaunchCommand.path,
                             !.coreSet = ~env_var(envCore).ok,
                             !.corePath = IF env_var(envCore).ok THEN NoPath
                                          ELSE try_get_core_lib(read_config(cfgFile).val, LaunchDisk,
                                                   mux_toolchain(launch), hostOs, hostArch).path]
    /\ UNCHANGED <<envvars, hvars, pvars, rvars, ivars>>

\* cmd.status()?: the child cannot be started, or it runs and exits with a
\* code or is killed by a signal
LaunchStatus ==
    /\ launch.pc = "spawn"
    /\ \/ launch' = [launch EXCEPT !.pc = "done", !.result = "err", !.err = "status"]
       \/ \E c \in 0..MaxCode : launch' = [launch EXCEPT !.pc = "status", !.child = "exited", !.code = c]
       \/ launch' = [launch EXCEPT !.pc = "status", !.child = "signaled"]
    /\ UNCHANGED <<envvars, hvars, pvars, rvars, ivars>>

\* process::exit with a code other than the child's
LaunchExit_AlwaysOne ==
    /\ launch.pc = "status"
    /\ launch' = IF launch.child = "exited" /\ launch.code = 0
                 THEN [launch EXCEPT !.pc = "done", !.result = "ok"]
                 ELSE [launch EXCEPT !.pc = "done", !.result = "exit", !.exit = 1]
    /\ UNCHANGED <<envvars, hvars, pvars, rvars, ivars>>

\* if !status.success() { process::exit(status.code().unwrap_or(1)) }; Ok(())
LaunchExit ==
    /\ launch.pc = "status"
    /\ launch' = IF launch.child = "exited" /\ launch.code = 0
                 THEN [launch EXCEPT !.pc = "done", !.result = "ok"]
                 ELSE [launch EXCEPT !.pc = "done", !.result = "exit",
                                     !.exit = IF launch.child = "exited" THEN launch.code ELSE 1]
    /\ UNCHANGED <<envvars, hvars, pvars, rvars, ivars>>

NextLaunch == LaunchReadConfig \/ LaunchResolve \/ LaunchStatus \/ LaunchExit

\* ------------------------------------------------------------------------
\* Value harness: render one Channel value and parse the string.
\* ------------------------------------------------------------------------

\* the values of the type Channel over the segments
ChannelValues ==
    {[channel |-> k, host |-> [os |-> os, arch |-> arch]] :
        k \in {Latest, Bleeding} \cup {Version(t) : t \in Segs}, os \in Segs, arch \in Segs}

InitValue ==
    /\ hostOs \in OsNames
    /\ hostArch \in ArchNames
    /\ envCore = "unset"
    /\ served = "match"
    /\ InstallIdle
    /\ ResolveIdle
    /\ pin = <<"">>
    /\ ppc = "value"
    /\ pres \in {Ok(c) : c \in ChannelValues}
    /\ prend = None
    /\ pback = Err("")

\* c.to_string()
RenderValue ==
    /\ ppc = "value"
    /\ prend' = Channel_to_string(pres.val)
    /\ ppc' = "rendered"
    /\ UNCHANGED <<pin, pres, pback, envvars, lvars, hvars, rvars, ivars>>

\* the rendered string .parse::<Channel>()
ParseRendered ==
    /\ ppc = "rendered"
    /\ pback' = Channel_from_str(prend, hostOs, hostArch)
    /\ ppc' = "reparsed"
    /\ UNCHANGED <<pin, pres, prend, envvars, lvars, hvars, rvars, ivars>>

NextValue == RenderValue \/ ParseRendered

vars == <<envvars, pvars, rvars, ivars, lvars, hvars>>

SpecParse == InitParse /\ [][NextParse]_vars

SpecValue == InitValue /\ [][NextValue]_vars

SpecLaunch == InitLaunch /\ [][NextLaunch]_vars

SpecResolve == InitResolve /\ [][NextResolve]_vars

SpecCore == InitCore /\ [][NextResolve]_vars

SpecRelink == InitRelink /\ [][NextRelink]_vars

\* The loop is sequential code of a running process: it keeps taking steps.
SpecResolveFair == SpecResolve /\ WF_vars(NextResolve)

\* a step of a lunik process
Step(p) ==
        \/ HandleInitConfig(p)
        \/ \E s \in ChanArgs : HandleAdd(p, s)
        \/ AddSave(p)
        \/ AddReturn(p)
        \/ \E args \in {<<>>} \cup {<<s>> : s \in ChanArgs} : HandleUpdate(p, args)
        \/ UpdateLoop(p)
        \/ UpdateReturn(p)
        \/ \E s \in ChanArgs : HandleRemove(p, s)
        \/ RemoveDir(p)
        \/ RemoveSave(p)
        \/ FiMkdir(p)
        \/ FiTempdir(p)
        \/ FiDownload(p)
        \/ FiUnpack(p)
        \/ FiCoreRename(p)
        \/ FiPerms(p)
        \/ FiRmBackup(p)
        \/ FiBackup(p)
        \/ FiMove(p)
        \/ FiRelink(p)
        \/ FiProbeMoon(p)
        \/ FiProbeMoonrun(p)
        \/ FiBundle(p)
        \/ FiCommit(p)
        \/ FiUnwind(p)

\* main.rs: lunik commands run one after the other
Next == \E p \in Sequential : Step(p)

Spec == Init /\ [][Next]_vars

\* the state after `lunik init-config`, with MaxConcOps commands to come
InitConc ==
    /\ ParseIdle
    /\ ResolveIdle
    /\ hostOs = "linux"
    /\ hostArch = "x86_64"
    /\ envCore = "unset"
    /\ served = "match"
    /\ launch = LaunchOff
    /\ cfgFile = save_config(Config_default)
    /\ dirs = [k \in DirKeys |-> NoTree]
    /\ links = NoLinks
    /\ home = NoHome
    /\ relink = RelinkOff
    /\ pc = [p \in Procs |-> "idle"]
    /\ loc = [p \in Procs |-> LocIdle]
    /\ ret = [p \in Procs |-> RetNone]
    /\ snap = [p \in Procs |-> [cfg |-> NoFile, dirs |-> [k \in DirKeys |-> NoTree]]]
    /\ nops = MaxOps - MaxConcOps
    /\ ninst = 0

\* the channel that each of the concurrent processes works on
ConcArg(p) == IF p = "p1" THEN <<"latest">> ELSE <<"1.0.0", "linux", "x86_64">>

\* a step of a process that runs `channel add` and `channel remove`
StepConc(p) ==
        \/ HandleAdd(p, ConcArg(p))
        \/ AddSave(p)
        \/ AddReturn(p)
        \/ HandleRemove(p, ConcArg(p))
        \/ RemoveDir(p)
        \/ RemoveSave(p)
        \/ FiMkdir(p)
        \/ FiTempdir(p)
        \/ FiDownload(p)
        \/ FiUnpack(p)
        \/ FiCoreRename(p)
        \/ FiPerms(p)
        \/ FiRmBackup(p)
        \/ FiBackup(p)
        \/ FiMove(p)
        \/ FiRelink(p)
        \/ FiProbeMoon(p)
        \/ FiProbeMoonrun(p)
        \/ FiBundle(p)
        \/ FiCommit(p)
        \/ FiUnwind(p)

\* two processes on two different channels, interleaved at every step
NextConc == \E p \in Procs : StepConc(p)

SpecConc == InitConc /\ [][NextConc]_vars

\* ------------------------------------------------------------------------
\* Race harness: two processes run `channel update` on the one installed
\* channel at the same time.
\* ------------------------------------------------------------------------

\* the channel that both processes update, by its canonical name
RaceChannel == Channel_to_string(Channel_from_str(<<"latest">>, "linux", "x86_64").val)

\* the tree that a successful `channel add` has left
RacePre == [Tree(1, "bundled") EXCEPT !.sums = "match"]

\* the state after `lunik init-config` and a successful `lunik channel add
\* latest`, with MaxConcOps commands to come
InitRace ==
    /\ ParseIdle
    /\ ResolveIdle
    /\ hostOs = "linux"
    /\ hostArch = "x86_64"
    /\ envCore = "unset"
    /\ served = "match"
    /\ launch = LaunchOff
    /\ cfgFile = save_config(NewConfig(Config_default, RaceChannel))
    /\ dirs = [k \in DirKeys |-> IF k = toolchain_path(RaceChannel) THEN RacePre ELSE NoTree]
    /\ links = [n \in ExeNames |-> 1]
    /\ home = NoHome
    /\ relink = RelinkOff
    /\ pc = [p \in Procs |-> "idle"]
    /\ loc = [p \in Procs |-> LocIdle]
    /\ ret = [p \in Procs |-> RetNone]
    /\ snap = [p \in Procs |-> [cfg |-> NoFile, dirs |-> [k \in DirKeys |-> NoTree]]]
    /\ nops = MaxOps - MaxConcOps
    /\ ninst = 1

\* a step of a process that runs `channel update <RaceChannel>`
StepRace(p) ==
        \/ HandleUpdate(p, <<RaceChannel>>)
        \/ UpdateLoop(p)
        \/ UpdateReturn(p)
        \/ FiMkdir(p)
        \/ FiTempdir(p)
        \/ FiDownload(p)
        \/ FiUnpack(p)
        \/ FiCoreRename(p)
        \/ FiPerms(p)
        \/ FiRmBackup(p)
        \/ FiBackup(p)
        \/ FiMove(p)
        \/ FiRelink(p)
        \/ FiProbeMoon(p)
        \/ FiProbeMoonrun(p)
        \/ FiBundle(p)
        \/ FiCommit(p)
        \/ FiUnwind(p)

\* the two processes, interleaved at every step: full_install takes no lock
NextRace == \E p \in Procs : StepRace(p)

SpecRace == InitRace /\ [][NextRace]_vars

\* ------------------------------------------------------------------------
\* Probe harness: one `channel update` of an installed channel whose entry in
\* lunik.json has been edited: it may have a fallback, a root_path or an
\* override that lead to another installed toolchain.
\* ------------------------------------------------------------------------

\* the other toolchain
OtherChannel == <<"1.0.0", "linux", "x86_64">>

\* the entries that the channel may have
ProbeInfos ==
    {ToolchainInfo(f, r, o, NoPath) :
        f \in {None, OtherChannel},
        r \in {NoDir, toolchain_path(OtherChannel)},
        o \in {{}, {<<"bin/moon", Join(toolchain_path(OtherChannel), "bin/moon")>>}}}

InitProbe ==
    /\ ParseIdle
    /\ ResolveIdle
    /\ hostOs = "linux"
    /\ hostArch = "x86_64"
    /\ envCore = "unset"
    /\ served = "match"
    /\ launch = LaunchOff
    /\ \E info \in ProbeInfos :
          cfgFile = save_config(Config(MapInsert(MapInsert(<<>>, OtherChannel, ToolchainInfo_default),
                                                 RaceChannel, info),
                                       {RaceChannel, OtherChannel}, <<"">>))
    /\ \E other \in {NoTree, [Tree(2, "bundled") EXCEPT !.sums = "match"]} :
          dirs = [k \in DirKeys |-> IF k = toolchain_path(RaceChannel) THEN RacePre
                                    ELSE IF k = toolchain_path(OtherChannel) THEN other
                                    ELSE NoTree]
    /\ links = [n \in ExeNames |-> 1]
    /\ home = NoHome
    /\ relink = RelinkOff
    /\ pc = [p \in Procs |-> "idle"]
    /\ loc = [p \in Procs |-> LocIdle]
    /\ ret = [p \in Procs |-> RetNone]
    /\ snap = [p \in Procs |-> [cfg |-> NoFile, dirs |-> [k \in DirKeys |-> NoTree]]]
    /\ nops = MaxOps - 1
    /\ ninst = 2

NextProbe == \E p \in Sequential : StepRace(p)

SpecProbe == InitProbe /\ [][NextProbe]_vars

\* ------------------------------------------------------------------------
\* Kill harness: the commands of Spec, where the process may be killed while
\* full_install is between the swap and the commit.
\* ------------------------------------------------------------------------

\* the statements of full_install after rename(tempdir, target_dir) and
\* before update_successful.set(true)
AfterSwap == {"fi_relink", "fi_probe_moon", "fi_probe_moonrun", "fi_bundle", "fi_commit"}

\* the process is killed: no statement of it runs any more, neither the
\* rollback guard nor the restore of the configuration in handle_add; ret
\* keeps the channel of the install that was killed
Kill(p) ==
    /\ pc[p] \in AfterSwap
    /\ Return(p, Ret("killed", loc[p].channel, FALSE, "killed", TRUE))
    /\ UNCHANGED <<cfgFile, dirs, links, snap, nops, ninst, envvars, lvars, hvars, pvars, rvars>>

InitKill ==
    /\ Init
    /\ hostOs = "linux"
    /\ envCore = "unset"
    /\ served = "match"

NextKill ==
    \/ \E p \in Sequential : Step(p)
    \/ \E p \in Sequential : Kill(p)

SpecKill == InitKill /\ [][NextKill]_vars

\* ------------------------------------------------------------------------
\* Command harness: the commands that read the configuration, one after the
\* other, on a home that is not initialised, initialised, or holds one
\* installed channel.
\* ------------------------------------------------------------------------

\* mux::real_toolchain_name(&config, name): the key of the entry that the
\* lookup of the resolver finds for name
real_toolchain_name(cfg, name, os, arch) ==
    LET found == LookupToolchain(cfg, name, os, arch)
    IN  IF found.ok THEN Ok(found.val.real) ELSE Err("Toolchain not found")

\* std::fs::create_dir_all(<toolchain>/lib) of symlink_dir_to_default
WithLib(t) == IF t.kind \in {"absent", "empty"} THEN LibDir ELSE t

\* handle_default: read_config, real_toolchain_name, symlink_dir_to_default
\* (.., "lib"), symlink_file_to_default(.., "bin/lsp-server.js"), save_config.
\* Whether an unpacked tree holds bin/lsp-server.js is decided by the archive.
HandleDefault(p, s) ==
    /\ Begin(p)
    /\ LET config == read_config(cfgFile)
           toolchain_name == real_toolchain_name(config.val, s, hostOs, hostArch)
           dir == toolchain_path(toolchain_name.val)
       IN  IF ~config.ok
           THEN /\ Return(p, Ret("default", s, FALSE, "read_config", FALSE))
                /\ UNCHANGED <<cfgFile, dirs, home>>
           ELSE IF ~toolchain_name.ok
           THEN /\ Return(p, Ret("default", s, FALSE, "Toolchain not found", FALSE))
                /\ UNCHANGED <<cfgFile, dirs, home>>
           ELSE \/ /\ Return(p, Ret("default", s, FALSE, "Unable to create lib directory", FALSE))
                   /\ UNCHANGED <<cfgFile, dirs, home>>
                \/ /\ dirs' = [dirs EXCEPT ![dir] = WithLib(dirs[dir])]
                   /\ home' = [home EXCEPT !.lib = toolchain_name.val]
                   /\ Return(p, Ret("default", s, FALSE, "Source file does not exist in toolchain", FALSE))
                   /\ UNCHANGED cfgFile
                \/ /\ ExeNames \subseteq TreeFiles(dirs[dir])
                   /\ home' = [lib |-> toolchain_name.val, lsp |-> toolchain_name.val]
                   /\ cfgFile' = save_config(Config(config.val.toolchain, config.val.channels,
                                                    toolchain_name.val))
                   /\ Return(p, Ret("default", s, TRUE, "", FALSE))
                   /\ UNCHANGED dirs
    /\ UNCHANGED <<links, ninst, relink, envvars, lvars, pvars, rvars>>

\* handle_which: read_config, then try_get_executable(&cfg, toolchain, binary)
\* with toolchain the first argument or else LUNIK_TOOLCHAIN
HandleWhich(p, toolchain) ==
    /\ Begin(p)
    /\ LET cfg == read_config(cfgFile)
           executable_path == try_get_executable(cfg.val, ExistingPaths(dirs), toolchain,
                                                 ExeMoon, hostOs, hostArch)
       IN  IF ~cfg.ok
           THEN Return(p, Ret("which", toolchain, FALSE, "read_config", FALSE))
           ELSE /\ executable_path.pc \in {"ok", "err"}
                /\ Return(p, Ret("which", toolchain, executable_path.pc = "ok",
                                 IF executable_path.pc = "ok" THEN "" ELSE executable_path.err.kind,
                                 FALSE))
    /\ UNCHANGED <<cfgFile, dirs, links, ninst, envvars, lvars, hvars, pvars, rvars>>

\* mux::entry starts: argv[0] is +<toolchain> or not, LUNIK_TOOLCHAIN is not
\* set. The launcher is a process of its own: it runs beside the commands.
LaunchStart(arg) ==
    /\ launch.pc \in {"off", "done"}
    /\ nops < MaxOps
    /\ nops' = nops + 1
    /\ launch' = [LaunchOff EXCEPT !.pc = "start", !.arg = arg]
    /\ UNCHANGED <<cfgFile, dirs, links, pc, loc, ret, snap, ninst, envvars, hvars, pvars, rvars>>

\* the canonical name of the channel "latest" on the host of the harness
InstalledName == Channel_to_string(Channel_from_str(<<"latest">>, "linux", "x86_64").val)

\* the homes the harness starts from: before init-config, after init-config,
\* and after init-config and a successful `channel add latest`
CmdHomes ==
    {[cfg |-> NoFile, tree |-> NoTree, links |-> NoLinks, ninst |-> 0],
     [cfg |-> save_config(Config_default), tree |-> NoTree, links |-> NoLinks, ninst |-> 0],
     [cfg |-> save_config(NewConfig(Config_default, InstalledName)),
      tree |-> [Tree(1, "bundled") EXCEPT !.sums = "match"],
      links |-> [n \in ExeNames |-> 1], ninst |-> 1]}

InitCmd ==
    /\ ParseIdle
    /\ ResolveIdle
    /\ hostOs = "linux"
    /\ hostArch = "x86_64"
    /\ envCore = "unset"
    /\ served = "match"
    /\ launch = LaunchOff
    /\ home = NoHome
    /\ relink = RelinkOff
    /\ \E h \in CmdHomes :
          /\ cfgFile = h.cfg
          /\ dirs = [k \in DirKeys |-> IF k = toolchain_path(InstalledName) THEN h.tree ELSE NoTree]
          /\ links = h.links
          /\ ninst = h.ninst
    /\ pc = [p \in Procs |-> "idle"]
    /\ loc = [p \in Procs |-> LocIdle]
    /\ ret = [p \in Procs |-> RetNone]
    /\ snap = [p \in Procs |-> [cfg |-> NoFile, dirs |-> [k \in DirKeys |-> NoTree]]]
    /\ nops = MaxOps - MaxCmdOps

\* a step of a lunik command
StepCmd(p) ==
    \/ Step(p)
    \/ \E s \in ChanArgs : HandleDefault(p, s)
    \/ \E toolchain \in {None} \cup ChanArgs : HandleWhich(p, toolchain)

NextCmd ==
    \/ \E p \in Sequential : StepCmd(p)
    \/ \E arg \in {None, <<"latest">>} : LaunchStart(arg)
    \/ NextLaunch

SpecCmd == InitCmd /\ [][NextCmd]_vars

\* ------------------------------------------------------------------------
\* Properties of the resolver (SpecResolve, SpecResolveFair)
\* ------------------------------------------------------------------------

RDone == rst.pc \in {"ok", "err"}

\* the name the walk starts from
RRequested == RStart(rcfg, rreq).cur

\* the candidate executable path of the entry keyed k
ExeCandidate(k) == get_toolchain_executable(k, rcfg.toolchain[k], ExeMoon)

\* a is requested, a falls back to b and b has no fallback
ChainAB(a, b) ==
    /\ rmode = "exe"
    /\ RRequested = a
    /\ a \in DOMAIN rcfg.toolchain
    /\ b \in DOMAIN rcfg.toolchain
    /\ rcfg.toolchain[a].fallback = b
    /\ rcfg.toolchain[b].fallback = None

\* ------------------------------------------------------------------------
\* Installer
\* ------------------------------------------------------------------------

\* full_install has returned to its caller in process p
FiReturned(p) == pc[p] = "fi_ret"

\* full_install is running, or has just returned, in a handle_add of p
AddInstalling(p) ==
    /\ loc[p].caller = "add"
    /\ pc[p] \in {"fi_mkdir", "fi_tempdir", "fi_download", "fi_unpack", "fi_core", "fi_perms",
                  "fi_rm_backup", "fi_backup", "fi_move", "fi_relink", "fi_probe_moon",
                  "fi_probe_moonrun", "fi_bundle", "fi_commit", "fi_unwind", "fi_ret"}

\* the last command of p was an add whose install failed, and nothing has
\* run since
AddFailed(p) ==
    /\ pc[p] = "idle"
    /\ ret[p].op = "add"
    /\ ret[p].installFailed

\* the canonical name of the channel of the add that has returned in p
AddedChannel(p) == Channel_to_string(Channel_from_str(ret[p].arg, hostOs, hostArch).val)

\* the errors of the stages of the install that come after the old tree has
\* been moved to the backup
AfterBackupErrors ==
    {"Failed to move new directories",
     "Failed to symlink some executables to bin directory",
     "Failed to run", "Failed to find executable",
     "Failed to compile core libraries"}

\* the errors of download, unpack, swap, relink and compile
InstallStageErrors ==
    {"Failed to download MoonBit binaries", "Failed to unpack MoonBit files",
     "Failed to move new directories",
     "Failed to symlink some executables to bin directory",
     "Failed to compile core libraries"}

\* C1: when full_install returns an error of a step that comes after the
\* installed tree in the target directory was renamed to the backup, the
\* target directory holds the pre-install tree again and neither the backup
\* nor the staging directory remains.
C1_RollbackRestoresOriginal ==
    \A p \in Procs :
        (/\ FiReturned(p)
         /\ loc[p].err \in AfterBackupErrors
         /\ loc[p].backedUp
         /\ loc[p].pre.stage = "bundled")
        => /\ dirs[loc[p].target] = loc[p].pre
           /\ dirs[loc[p].backup].kind = "absent"
           /\ dirs[StagingDir(p)].kind = "absent"

\* C2, while the install runs: the configuration file holds the
\* configuration with the new channel in both of its maps
C2_PersistedBeforeInstall ==
    \A p \in Procs :
        AddInstalling(p)
        => /\ cfgFile.exists
           /\ loc[p].channel \in cfgFile.cfg.channels
           /\ loc[p].channel \in DOMAIN cfgFile.cfg.toolchain
           /\ loc[p].channel \notin snap[p].cfg.cfg.channels

\* C2, at the return: a failed install makes handle_add write back the
\* configuration it read at its start and return the install's error
C2_RestoredOnFailure ==
    \A p \in Procs :
        (FiReturned(p) /\ loc[p].caller = "add" /\ loc[p].err # "" /\ pc'[p] = "idle")
        => /\ cfgFile' = snap[p].cfg
           /\ ~ret'[p].ok
           /\ ret'[p].err = loc[p].err

C3_AddAllOrNothing ==
    \A p \in Procs :
        (AddFailed(p) /\ ret[p].err \in InstallStageErrors)
        => /\ cfgFile = snap[p].cfg
           /\ dirs[toolchain_path(AddedChannel(p))].kind = "absent"
           /\ dirs[toolchain_path(BackupName(AddedChannel(p)))].kind = "absent"
           /\ dirs[StagingDir(p)].kind = "absent"


\* the executables of the tree that full_install of p has moved into place
RelinkEntries(p) == TreeFiles(dirs[loc[p].target]) \cap ExeNames

\* every executable of the bin directory of p's target has its link
AllLinked(p) ==
    /\ RelinkEntries(p) # {}
    /\ \A n \in RelinkEntries(p) : links[n] # 0

\* C11: ensure_all_executables_are_linked run on a bin directory whose
\* executables are all linked already makes no link, replaces none, and
\* succeeds unless reading the directory itself fails.
C11_RelinkIdempotent ==
    [][\A p \in Procs :
          (pc[p] = "fi_relink" /\ pc'[p] # "fi_relink" /\ AllLinked(p))
          => /\ links' = links
             /\ loc'[p].cause # "symlink"
             /\ (loc'[p].cause = "" => pc'[p] = "fi_probe_moon")]_vars

\* the relink of a later install has succeeded and the links are still
\* those that an earlier install made
C11_Witness ==
    \E p \in Procs :
        /\ pc[p] = "fi_probe_moon"
        /\ loc[p].iid > 1
        /\ \A n \in RelinkEntries(p) : links[n] # 0 /\ links[n] < loc[p].iid

\* the last command of p was an add that succeeded, and nothing has run since
AddSucceeded(p) ==
    /\ pc[p] = "idle"
    /\ ret[p].op = "add"
    /\ ret[p].ok

\* C12: after a successful add of s the persisted configuration has a
\* toolchain entry and a channels entry under the canonical string of
\* parse(s), and every other entry and the default are as they were read.
C12_AddRecordsCanonicalKey ==
    \A p \in Procs :
        AddSucceeded(p)
        => LET c == AddedChannel(p)
               old == snap[p].cfg.cfg
               new == cfgFile.cfg
           IN  /\ cfgFile.exists
               /\ c \in new.channels
               /\ c \in DOMAIN new.toolchain
               /\ new.channels \ {c} = old.channels \ {c}
               /\ DOMAIN new.toolchain \ {c} = DOMAIN old.toolchain \ {c}
               /\ \A k \in DOMAIN old.toolchain \ {c} : new.toolchain[k] = old.toolchain[k]
               /\ new.default = old.default

\* "1.0.0-linux-x86_64" has been added to a configuration that held another
\* channel already
C12_Witness ==
    \E p \in Procs :
        /\ AddSucceeded(p)
        /\ ret[p].arg = <<"1.0.0", "linux", "x86_64">>
        /\ <<"1.0.0", "linux", "x86_64">> \in cfgFile.cfg.channels
        /\ <<"1.0.0", "linux", "x86_64">> \in DOMAIN cfgFile.cfg.toolchain
        /\ snap[p].cfg.cfg.channels # {}

\* C13: a tree is moved into a toolchain directory only when every file
\* listed in the checksum manifest matched; a mismatch aborts the install
\* before the swap.
C13_NoSwapWithoutVerification ==
    \A k \in DirKeys :
        (k.kind = "toolchain" /\ dirs[k].kind = "tree") => verify_outputs(dirs[k]).ok

\* full_install of p has not reached the swap: it is between
\* create_dir_all and the declaration of the rollback guard, or it returns
\* from a failure of one of these steps
BeforeSwap(p) ==
    /\ ~loc[p].armed
    /\ pc[p] \in {"fi_tempdir", "fi_download", "fi_unpack", "fi_core", "fi_perms",
                  "fi_rm_backup", "fi_unwind", "fi_ret"}

\* C14: until the swap begins the target directory is as it was before the
\* install, absent included; only the staging directory changes.
C14_TargetUntouchedBeforeSwap ==
    \A p \in Procs : BeforeSwap(p) => dirs[loc[p].target] = loc[p].pre

\* full_install of p runs in an update of a channel of the configuration
\* whose directory held a complete install when it started
Upgrading(p) ==
    /\ pc[p] \in {"fi_mkdir", "fi_tempdir", "fi_download", "fi_unpack", "fi_core", "fi_perms",
                  "fi_rm_backup", "fi_backup", "fi_move", "fi_relink", "fi_probe_moon",
                  "fi_probe_moonrun", "fi_bundle", "fi_commit", "fi_unwind", "fi_ret"}
    /\ loc[p].caller = "update"
    /\ loc[p].pre.stage = "bundled"
    /\ loc[p].target = toolchain_path(loc[p].channel)
    /\ loc[p].channel \in cfgFile.cfg.channels
    /\ loc[p].channel \in DOMAIN cfgFile.cfg.toolchain

\* the lookup that another process would make in the current state of the
\* disk: try_get_executable(cfg, Some(channel), "moon")
LookupNow(channel) ==
    try_get_executable(cfgFile.cfg, ExistingPaths(dirs), channel, "bin/moon", hostOs, hostArch)

\* C15: at every point between two filesystem steps of an upgrade, a lookup
\* of the channel finds its executable under the channel directory.
C15_UpgradeKeepsExecutableVisible ==
    \A p \in Procs :
        Upgrading(p)
        => /\ LookupNow(loc[p].channel).pc = "ok"
           /\ LookupNow(loc[p].channel).path = Join(loc[p].target, "bin/moon")

\* C16: when two processes have added two different channels, whatever the
\* interleaving, the persisted configuration holds both channels.
C16_ConcurrentAddsBothRecorded ==
    ((\A p \in Procs : AddSucceeded(p)) /\ AddedChannel("p1") # AddedChannel("p2"))
    => \A p \in Procs :
          /\ AddedChannel(p) \in cfgFile.cfg.channels
          /\ AddedChannel(p) \in DOMAIN cfgFile.cfg.toolchain

\* C4: when A falls back to B, B has no fallback and of the two candidate
\* paths only B's exists, try_get_executable(config, "A", exe) returns
\* Ok(B's candidate path).
C4_FallbackSuppliesExecutable ==
    \A a, b \in RKeys :
        (/\ ChainAB(a, b)
         /\ ExeCandidate(a) \notin rexists
         /\ ExeCandidate(b) \in rexists
         /\ RDone)
        => (rst.pc = "ok" /\ rst.path = ExeCandidate(b))

C4_Witness ==
    /\ ChainAB(NameA, NameB)
    /\ rcfg.toolchain[NameA].override_ = {}
    /\ rcfg.toolchain[NameB].override_ = {}
    /\ rexists = {Join(toolchain_path(NameB), ExeMoon)}
    /\ rst.pc = "ok"
    /\ rst.path = Join(toolchain_path(NameB), ExeMoon)

C6_OverridePreferred ==
    \A a \in RKeys :
        (/\ rmode = "exe"
         /\ RRequested = a
         /\ a \in DOMAIN rcfg.toolchain
         /\ <<ExeMoon, OverrideO>> \in rcfg.toolchain[a].override_
         /\ OverrideO \in rexists
         /\ RDone)
        => (rst.pc = "ok" /\ rst.path = OverrideO)

C6_Witness ==
    /\ rmode = "exe"
    /\ RRequested = NameA
    /\ NameA \in DOMAIN rcfg.toolchain
    /\ <<ExeMoon, OverrideO>> \in rcfg.toolchain[NameA].override_
    /\ rcfg.toolchain[NameA].root_path = NoDir
    /\ {OverrideO, Join(toolchain_path(NameA), ExeMoon)} \subseteq rexists
    /\ rst.pc = "ok"
    /\ rst.path = OverrideO

\* C7: every resolution returns: whatever the configuration, also one whose
\* fallback pointers form a cycle and in which no candidate exists, the loop
\* of try_get_executable and of try_get_core_lib is left after finitely many
\* iterations.
C7_ResolutionTerminates == <>RDone

\* ------------------------------------------------------------------------
\* Properties of the channel parser (SpecParse)
\* ------------------------------------------------------------------------

\* C8: for every string of the form <release>-<os>-<arch> (a release and a
\* host of exactly two components) parsing succeeds and rendering the parsed
\* channel gives the string back.
C8_RoundTripExplicitHost ==
    Len(pin) = 3 =>
        /\ ppc = "parsed" => pres.ok
        /\ ppc = "rendered" => prend = pin

C8_Witness ==
    /\ ppc = "rendered"
    /\ pin = <<"bleeding", "linux", "x86_64">>
    /\ prend = pin

\* the host of the running platform, "macos" being written "darwin"
PlatformOs == IF hostOs = "macos" THEN "darwin" ELSE hostOs

\* C9: a string with no host part (latest, bleeding or a version) parses to
\* the host of the running platform, with macos written darwin, and renders
\* as <release>-<current os>-<current arch>.
C9_DefaultHostIsPlatform ==
    (Len(pin) = 1 /\ pin[1] # "") =>
        /\ ppc = "parsed" =>
              /\ pres.ok
              /\ pres.val.host = [os |-> PlatformOs, arch |-> hostArch]
        /\ ppc = "rendered" => prend = <<pin[1], PlatformOs, hostArch>>

C9_Witness ==
    /\ ppc = "rendered"
    /\ pin = <<"1.0.0">>
    /\ hostOs = "macos"
    /\ prend = <<"1.0.0", "darwin", hostArch>>

\* a selector that ChannelKind::from_str can give: a Version never holds
\* the text of a keyword
ParsedSelector(k) == k.tag = "Version" => k.v \notin {"latest", "bleeding"}

C10_MalformedRejected ==
    (ppc = "parsed" /\ pin \in {<<"">>, <<"latest", "">>, <<"latest", "linux">>})
        => ~pres.ok

\* ------------------------------------------------------------------------
\* Properties of the launcher (SpecLaunch)
\* ------------------------------------------------------------------------

\* the executable of the launch resolves
ExeResolves ==
    try_get_executable(cfgFile.cfg, LaunchDisk, mux_toolchain(launch), ExeMoon,
                       hostOs, hostArch).pc = "ok"

\* C18: MOON_CORE_OVERRIDE is set on the child only when the parent does not
\* have it set; when the parent has it set, a launch whose executable
\* resolves does not fail in the resolution.
C18_ParentOverrideRespected ==
    /\ (launch.pc \in {"spawn", "status"} /\ launch.coreSet) => envCore = "unset"
    /\ (envCore # "unset" /\ ExeResolves /\ launch.pc = "done" /\ launch.result = "err")
       => launch.err = "status"

\* C19: when the child has run, the launcher exits with the child's code if
\* it is not zero, with 1 if the child was killed by a signal, and returns
\* Ok if the child exited with zero.
C19_ExitCodePropagated ==
    (launch.pc = "done" /\ launch.child # "")
    => /\ (launch.child = "exited" /\ launch.code # 0)
          => (launch.result = "exit" /\ launch.exit = launch.code)
       /\ launch.child = "signaled"
          => (launch.result = "exit" /\ launch.exit = 1)
       /\ (launch.child = "exited" /\ launch.code = 0)
          => launch.result = "ok"

\* a child that exited with 2 has made the launcher exit with 2
C19_Witness ==
    /\ launch.pc = "done"
    /\ launch.child = "exited"
    /\ launch.code = 2
    /\ launch.result = "exit"
    /\ launch.exit = 2

\* ------------------------------------------------------------------------
\* Properties of the commands on a home that is not initialised (SpecCmd)
\* ------------------------------------------------------------------------

\* a handler starts in this step (the launcher starts in a step of its own)
HandlerStarts == nops' = nops + 1 /\ launch' = launch

\* the step is a whole run of `lunik init-config` that created the file
InitConfigRan ==
    /\ cfgFile' = save_config(Config_default)
    /\ \E p \in Procs : pc[p] = "idle" /\ ret'[p].op = "init-config" /\ ret'[p].ok

DiskUnchanged == cfgFile' = cfgFile /\ dirs' = dirs /\ links' = links /\ home' = home

\* C20: while the configuration file is absent, read_config is an error; a
\* command other than init-config (add, update, remove, default, which)
\* returns an error in its first step and the launcher returns the
\* read_config error, and neither changes the configuration file, the
\* toolchain directories or the links.
C20_AbsentConfigIsAnError ==
    [][~cfgFile.exists
       => /\ ~read_config(cfgFile).ok
          /\ (HandlerStarts /\ ~InitConfigRan)
             => /\ pc' = pc
                /\ \E p \in Procs :
                      /\ pc[p] = "idle"
                      /\ ~ret'[p].ok
                      /\ ret'[p].op \in {"add", "update", "remove", "default", "which"}
                /\ DiskUnchanged
          /\ (launch.pc = "start" /\ launch' # launch)
             => /\ launch'.pc = "done"
                /\ launch'.result = "err"
                /\ launch'.err = "read_config"
                /\ DiskUnchanged]_vars

\* on a home without configuration file, `default` has failed and the
\* launcher has failed on read_config
C20_Witness ==
    /\ ~cfgFile.exists
    /\ ret["p1"].op = "default"
    /\ ~ret["p1"].ok
    /\ launch.pc = "done"
    /\ launch.err = "read_config"
    /\ dirs = [k \in DirKeys |-> NoTree]
    /\ home = NoHome
    /\ relink = RelinkOff

\* ------------------------------------------------------------------------
\* Properties of the stages of full_install (Spec)
\* ------------------------------------------------------------------------

\* the stage that a process of full_install is in: 1 downloading, 2
\* unpacking, 3 verifying, 4 swapping, 5 relinking, 6 compiling, 7 done,
\* 8 rolling back, 0 outside full_install. No position of the code is in
\* stage 3: the verification stands in a comment.
InstallStage(p) ==
    CASE pc[p] \in {"fi_mkdir", "fi_tempdir", "fi_download"} -> 1
      [] pc[p] \in {"fi_unpack", "fi_core", "fi_perms"} -> 2
      [] pc[p] \in {"fi_rm_backup", "fi_backup", "fi_move"} -> 4
      [] pc[p] = "fi_relink" -> 5
      [] pc[p] \in {"fi_probe_moon", "fi_probe_moonrun", "fi_bundle"} -> 6
      [] pc[p] = "fi_commit" -> 7
      [] pc[p] \in {"fi_unwind", "fi_ret"} -> IF loc[p].err = "" THEN 7 ELSE 8
      [] OTHER -> 0

\* C21, the order: a step of an install stays in its stage, moves to the
\* next stage, or moves to rolling back
StagesInOrder ==
    \A p \in Procs :
        (InstallStage(p) \in 1..6 /\ InstallStage(p)' # 0)
        => InstallStage(p)' \in {InstallStage(p), InstallStage(p) + 1, 8}

\* C21, done: the done stage is entered from compiling only
DoneAfterEveryStage ==
    \A p \in Procs :
        (InstallStage(p) # 7 /\ InstallStage(p)' = 7) => InstallStage(p) = 6

\* C21, rolling back: an install that failed in a stage from unpacking to
\* compiling has returned with the target directory as it was before
RollbackEndsInPreInstallState ==
    \A p \in Procs :
        (/\ pc[p] = "fi_ret"
         /\ loc[p].err \in InstallStageErrors \ {"Failed to download MoonBit binaries"})
        => /\ dirs[loc[p].target] = loc[p].pre
           /\ dirs[loc[p].backup].kind = "absent"

\* C21: each install passes through downloading, unpacking, verifying,
\* swapping, relinking, compiling and done in this order, each at most once;
\* done is reached only when every stage succeeded; an install that fails in
\* a stage from unpacking to compiling rolls back and ends in the pre-install
\* state.
C21_StagesInFixedOrder ==
    [][StagesInOrder /\ DoneAfterEveryStage /\ RollbackEndsInPreInstallState]_vars

\* the install of p has renamed the previous installation to the backup
\* and is at a later statement of full_install, before the success flag
Swapped(p) ==
    /\ loc[p].backedUp
    /\ loc[p].pre.kind = "tree"
    /\ pc[p] \in {"fi_move", "fi_relink", "fi_probe_moon", "fi_probe_moonrun",
                  "fi_bundle", "fi_commit"}

\* C22: from the swap until relink and compile have both succeeded the
\* backup directory holds the previous installation; a step of the install
\* makes the backup disappear only by setting the success flag and deleting
\* it, or by renaming it back to the target.
C22_BackupKeptUntilSuccess ==
    [][\A p \in Procs :
          /\ Swapped(p) => dirs[loc[p].backup] = loc[p].pre
          /\ (/\ loc[p].backedUp
              /\ loc[p].pre.kind = "tree"
              /\ pc[p] \in {"fi_move", "fi_relink", "fi_probe_moon", "fi_probe_moonrun",
                            "fi_bundle", "fi_commit", "fi_unwind"}
              /\ dirs[loc[p].backup].kind # "absent"
              /\ dirs'[loc[p].backup].kind = "absent")
             => \/ loc'[p].successful /\ loc'[p].err = ""
                \/ ~loc[p].successful /\ dirs'[loc[p].target] = dirs[loc[p].backup]]_vars

\* an upgrade has relinked and compiled, and the backup is still there
C22_Witness ==
    \E p \in Procs :
        /\ pc[p] = "fi_commit"
        /\ loc[p].backedUp
        /\ loc[p].pre.stage = "bundled"
        /\ dirs[loc[p].backup] = loc[p].pre
        /\ dirs[loc[p].target].id = loc[p].iid

\* the error that full_install returns when run_bundle_core fails
CompileError == "Failed to compile core libraries"

\* C23: when the compile step does not compile the core library (the command
\* is not found, not started, or exits with a failure), full_install goes to
\* its return with the compile error and the success flag not set; the guard
\* is armed and runs, the previous installation is still in the backup or
\* back in the target, and the handler returns an error.
C23_CompileFailureIsFatal ==
    [][\A p \in Procs :
          /\ (pc[p] = "fi_bundle" /\ pc'[p] # "fi_bundle"
                /\ dirs'[loc[p].target].stage # "bundled")
             => /\ pc'[p] = "fi_unwind"
                /\ loc'[p].err = CompileError
                /\ ~loc'[p].successful
          /\ (pc[p] = "fi_unwind" /\ pc'[p] # "fi_unwind" /\ loc[p].err = CompileError)
             => /\ loc[p].armed
                /\ ~loc[p].successful
                /\ dirs' = DropTempDir(Rollback(dirs, loc[p]), p, loc[p])
                /\ (loc[p].backedUp /\ loc[p].pre.kind = "tree")
                   => (dirs'[loc[p].backup] = loc[p].pre \/ dirs'[loc[p].target] = loc[p].pre)
          /\ (pc[p] = "fi_ret" /\ pc'[p] = "idle" /\ loc[p].err = CompileError)
             => (~ret'[p].ok /\ ret'[p].err = CompileError)]_vars

\* an upgrade whose compile step failed has returned from full_install
C23_Witness ==
    \E p \in Procs :
        /\ pc[p] = "fi_ret"
        /\ loc[p].err = CompileError
        /\ loc[p].backedUp
        /\ loc[p].pre.kind = "tree"
        /\ ~loc[p].successful
        /\ dirs[loc[p].backup] = loc[p].pre

\* ------------------------------------------------------------------------
\* Properties of the walk along the fallback chain (SpecResolve)
\* ------------------------------------------------------------------------

\* the toolchains on the chain of the request, in order, as pairs of the
\* key and the entry
RChain ==
    ConfigToolchainFallbackIter(rcfg, RRequested, hostOs, hostArch,
                                Cardinality(DOMAIN rcfg.toolchain) + 1)

\* no key comes twice on the chain
RAcyclic == Len(RChain) <= Cardinality(DOMAIN rcfg.toolchain)

\* the candidate path of the i-th toolchain of the chain
RCandidate(i) == CandidateOf(rmode, RChain[i].real, RChain[i].info, ExeMoon)

\* the positions of the chain whose candidate exists
RHits == {i \in 1..Len(RChain) : RCandidate(i) \in rexists}

\* the chain ends at a name that cannot be looked up: the start name, or
\* the fallback of its last toolchain
RChainBroken ==
    IF RChain = <<>> THEN TRUE ELSE RChain[Len(RChain)].info.fallback # None

\* C24: on an acyclic chain try_get_executable returns the candidate of the
\* first toolchain of the chain whose candidate exists, a path that exists;
\* it fails exactly when no candidate on the chain exists, with "Toolchain
\* not found" when the chain ends at a name that cannot be looked up and
\* with "Executable not found" otherwise.
C24_FirstExistingCandidate ==
    (rmode = "exe" /\ RDone /\ RAcyclic)
    => IF RHits # {}
       THEN /\ rst.pc = "ok"
            /\ rst.path = RCandidate(CHOOSE i \in RHits : \A j \in RHits : i <= j)
            /\ rst.path \in rexists
       ELSE /\ rst.pc = "err"
            /\ rst.err.kind = IF RChainBroken THEN "Toolchain not found"
                              ELSE "Executable not found"

\* a chain of three toolchains of which only the last has its executable
C24_Witness ==
    /\ rmode = "exe"
    /\ RAcyclic
    /\ Len(RChain) = 3
    /\ RHits = {3}
    /\ rst.pc = "ok"
    /\ rst.path = RCandidate(3)

\* the canonical channel name of the name that the walk is looking up
RCanonical == Channel_to_string(Channel_from_str(rst.cur, hostOs, hostArch).val)

\* C25: whenever a lookup of the walk has found an entry, it is the entry
\* keyed by the name itself if the name is a key, also when the canonical
\* channel form of the name is another key; it is the entry keyed by the
\* canonical form only when the name is not a key.
C25_DirectKeyWins ==
    rst.pc = "probe"
    => IF rst.cur \in DOMAIN rcfg.toolchain
       THEN rst.real = rst.cur
       ELSE /\ Channel_from_str(rst.cur, hostOs, hostArch).ok
            /\ rst.real = RCanonical
            /\ RCanonical \in DOMAIN rcfg.toolchain

\* "latest" and its canonical form are both keys, "latest" is looked up and
\* the entry keyed "latest" is found
C25_Witness ==
    /\ rst.pc = "probe"
    /\ rst.cur = NameLatest
    /\ {NameLatest, NameLatestFull} \subseteq DOMAIN rcfg.toolchain
    /\ RCanonical = NameLatestFull
    /\ rst.real = NameLatest

\* C26: when a lookup of the walk fails, the error is "Toolchain not found"
\* and names the identifier that the caller requested.
C26_NotFoundNamesRequest ==
    (rst.pc = "err" /\ rst.err.kind = "Toolchain not found")
    => rst.err.name = RRequested

\* the entry that the walk has just looked up
RInfo == rcfg.toolchain[rst.real]

\* the walk is about to test the candidate of a toolchain that has an
\* override entry for the executable, and the override path does not exist
ROverrideMissing ==
    /\ rmode = "exe"
    /\ rst.pc = "probe"
    /\ HasOverride(RInfo, ExeMoon)
    /\ OverrideOf(RInfo, ExeMoon) \notin rexists

\* C27: when the override path of a toolchain does not exist, the walk
\* goes on with the fallback of the toolchain, or fails with "Executable
\* not found" printing the override path when there is no fallback, whether
\* or not <root>/bin/<exe> of the toolchain exists.
C27_OverrideIsOnlyCandidate ==
    [][ROverrideMissing
       => IF RInfo.fallback # None
          THEN rst'.pc = "loop" /\ rst'.cur = RInfo.fallback
          ELSE /\ rst'.pc = "err"
               /\ rst'.err.kind = "Executable not found"
               /\ rst'.err.path = OverrideOf(RInfo, ExeMoon)]_vars

\* the override of a is missing, <root>/bin/moon of a exists, and the walk
\* has failed printing the override path
C27_Witness ==
    /\ rmode = "exe"
    /\ rst.pc = "err"
    /\ rst.real = NameA
    /\ HasOverride(rcfg.toolchain[NameA], ExeMoon)
    /\ OverrideO \notin rexists
    /\ Join(RootOf(NameA, rcfg.toolchain[NameA]), ExeMoon) \in rexists
    /\ rst.err.path = OverrideO

\* Properties of the walk for the support library (SpecCore)

\* the support-library candidate of the i-th toolchain of the chain: its
\* core_path when set, otherwise lib/core under its root
CoreCandidate(i) ==
    LET real == RChain[i].real
        info == RChain[i].info
    IN  IF info.core_path # NoPath THEN info.core_path
        ELSE Join(IF info.root_path # NoDir THEN info.root_path ELSE toolchain_path(real),
                  "lib/core")

\* the positions of the chain whose support-library candidate exists
CoreHits == {i \in 1..Len(RChain) : CoreCandidate(i) \in rexists}

\* what try_get_executable returns for the same request, configuration and disk
RExeWalk == try_get_executable(rcfg, rexists, rreq, ExeMoon, hostOs, hostArch)

\* C28: on an acyclic chain try_get_core_lib returns the candidate of the
\* first toolchain of the chain of the request whose candidate exists, where
\* the candidate is the core_path of the entry when set and lib/core under
\* its root otherwise, whatever per-executable overrides the entries have;
\* it fails exactly when no such candidate exists on the chain.
C28_CoreLibWalksSameChain ==
    (rmode = "core" /\ RDone /\ RAcyclic)
    => IF CoreHits # {}
       THEN /\ rst.pc = "ok"
            /\ rst.real = RChain[CHOOSE i \in CoreHits : \A j \in CoreHits : i <= j].real
            /\ rst.path = CoreCandidate(CHOOSE i \in CoreHits : \A j \in CoreHits : i <= j)
       ELSE /\ rst.pc = "err"
            /\ rst.err.kind = IF RChainBroken THEN "Toolchain not found"
                              ELSE "Core library not found"

\* a has an override for moon, which exists, and no support library; its
\* fallback b has both: the library comes from b's lib/core, while the
\* executable of the same request comes from a's override
C28_Witness ==
    /\ rmode = "core"
    /\ RRequested = NameA
    /\ Len(RChain) = 2
    /\ RChain[2].real = NameB
    /\ HasOverride(rcfg.toolchain[NameA], ExeMoon)
    /\ OverrideO \in rexists
    /\ CoreHits = {2}
    /\ rst.pc = "ok"
    /\ rst.real = NameB
    /\ rst.path = Join(toolchain_path(NameB), "lib/core")
    /\ RExeWalk.pc = "ok"
    /\ RExeWalk.real = NameA

\* Properties of the host part (SpecParse)

\* the number of '-'-delimited components of the host part of the input
HostComponents == Len(pin) - 1

\* C29: an input with a host part parses only if the host part has exactly
\* two components; with fewer than two or with three or more it is a parse
\* error.
C29_HostHasExactlyTwoComponents ==
    (ppc = "parsed" /\ HostComponents >= 1)
        => (pres.ok <=> HostComponents = 2)

\* Properties of ensure_all_executables_are_linked (SpecRelink)

\* the names that end in a shared-library suffix
SharedLibNames == {"libmoonrt.so", ".so"}

\* f is a plausible executable file of bin_dir
Plausible(f) == relink.bin[f] = "file" /\ f \notin SharedLibNames

\* C30: when ensure_all_executables_are_linked has returned Ok, every
\* plausible executable file of bin_dir has an entry of its name in the
\* user-global bin directory, every entry that was there before the call is
\* as it was, and every entry that was not is a link to the multiplexer's
\* own executable.
C30_EveryExecutableLinked ==
    relink.pc = "ok"
    => \A f \in BinNames :
          /\ Plausible(f) => relink.global[f] \in {"self", "other"}
          /\ relink.before[f] # "absent" => relink.global[f] = relink.before[f]
          /\ (relink.before[f] = "absent" /\ relink.global[f] # "absent")
             => relink.global[f] = "self"

\* the call has succeeded on a bin_dir with moon and moonrun: moon had no
\* entry and got a link to the multiplexer, moonrun had another file under
\* its name, which is still there
C30_Witness ==
    /\ relink.pc = "ok"
    /\ Plausible("moon") /\ Plausible("moonrun")
    /\ relink.before["moon"] = "absent"
    /\ relink.global["moon"] = "self"
    /\ relink.before["moonrun"] = "other"
    /\ relink.global["moonrun"] = "other"

\* C31: a file of bin_dir whose name ends in a shared-library suffix is not
\* accepted by can_be_executable and is given no entry in the user-global
\* bin directory.
C31_SharedLibNeverPlausible ==
    \A f \in SharedLibNames :
        /\ ~can_be_executable(relink.bin[f], f)
        /\ relink.before[f] = "absent" => relink.global[f] = "absent"

\* Properties of an install that finds a backup directory (SpecKill)

\* p runs the first install of a channel after the install of that channel
\* that was killed, and the backup directory is there: the install has not
\* renamed its target to the backup name
LeftoverBackup(p) ==
    /\ ret[p].op = "killed"
    /\ ret[p].arg = loc[p].channel
    /\ pc[p] \in {"fi_rm_backup", "fi_backup", "fi_unwind"}
    /\ ~loc[p].backedUp
    /\ dirs[loc[p].backup].kind # "absent"

\* C32: an install that finds a backup directory left by an earlier install
\* has deleted it when it renames its target to the backup name, so that the
\* rename does not fail on it, and its rollback does not move the leftover
\* to the target.
C32_LeftoverBackupDeleted ==
    [][\A p \in Procs :
          /\ (ret[p].op = "killed" /\ pc[p] = "fi_backup")
             => dirs[loc[p].backup].kind = "absent"
          /\ (LeftoverBackup(p) /\ pc[p] = "fi_unwind")
             => dirs'[loc[p].backup] = dirs[loc[p].backup]]_vars

\* Properties of two installs of one channel at the same time (SpecRace)

RaceTarget == toolchain_path(RaceChannel)

\* both updates have returned
BothReturned == \A p \in Procs : pc[p] = "idle" /\ ret[p].op = "update"

\* both updates started on the tree that was installed before them: neither
\* started after the other had changed the target
BothStartedOnPre == \A p \in Procs : snap[p].dirs[RaceTarget] = RacePre

\* t is a tree that one of the two installs staged and that has been through
\* every step of full_install
CompleteNew(t) == t.kind = "tree" /\ t.id > 1 /\ t.stage = "bundled"

\* the target is neither the tree installed before nor a complete new tree
Damaged == dirs[RaceTarget] # RacePre /\ ~CompleteNew(dirs[RaceTarget])

ProbedName(p) == IF pc[p] = "fi_probe_moonrun" THEN "bin/moonrun" ELSE "bin/moon"

\* what executable_entry gives that statement
ProbedEntry(p) ==
    executable_entry(loc[p].config, ExistingPaths(dirs), loc[p].channel, ProbedName(p),
                     hostOs, hostArch, env_var(envCore).ok)

\* C34: the program that a version probe or the compile step of an install
\* runs is the executable of that name in the bin directory of the target of
\* the install, whatever the entry of the channel in the configuration.
C34_ProbesRunTheNewTree ==
    \A p \in Procs :
        (pc[p] \in {"fi_probe_moon", "fi_probe_moonrun", "fi_bundle"} /\ ProbedEntry(p).pc = "ok")
        => ProbedEntry(p).path = Join(loc[p].target, ProbedName(p))

\* Properties of the directory that a channel argument names (Spec)

\* the canonical name of the channel that the argument s names
CanonicalOf(s) == Channel_to_string(Channel_from_str(s, hostOs, hostArch).val)

\* what the resolver gives for moon of the channel that s names
ResolvedMoon(s) ==
    try_get_executable(cfgFile.cfg, ExistingPaths(dirs), CanonicalOf(s), "bin/moon",
                       hostOs, hostArch)

\* C35: an install started by add or update works on the directory of the
\* canonical name of its channel, the directory that the resolver probes;
\* after a successful remove of s the directory of the canonical name of s
\* does not exist; after a successful update of s the resolver gives moon of
\* the tree staged last.
C35_OperationsUseCanonicalDirectory ==
    \A p \in Sequential :
        /\ loc[p].caller \in {"add", "update"} /\ loc[p].channel # None
           => loc[p].target \in {NoDir, toolchain_path(loc[p].channel)}
        /\ (pc[p] = "idle" /\ ret[p].op = "remove" /\ ret[p].ok)
           => dirs[toolchain_path(CanonicalOf(ret[p].arg))].kind = "absent"
        /\ (pc[p] = "idle" /\ ret[p].op = "update" /\ ret[p].ok /\ Len(ret[p].arg) = 1)
           => /\ ResolvedMoon(ret[p].arg[1]).pc = "ok"
              /\ dirs[ResolvedMoon(ret[p].arg[1]).path.dir].id = ninst

\* Properties of the names kept in the configuration (SpecCmd)

\* no command is running
AllIdle == \A p \in Sequential : pc[p] = "idle"

\* C36: between commands the default of the persisted configuration is
\* empty or a key of the toolchain map, and every fallback names a key of
\* the toolchain map.
C36_DefaultAndFallbacksNameEntries ==
    (AllIdle /\ cfgFile.exists)
    => /\ cfgFile.cfg.default \in {<<"">>} \cup DOMAIN cfgFile.cfg.toolchain
       /\ \A k \in DOMAIN cfgFile.cfg.toolchain :
             cfgFile.cfg.toolchain[k].fallback \in {None} \cup DOMAIN cfgFile.cfg.toolchain

\* Properties of the two maps of the configuration (Spec)

\* C37: whatever adds and removes have run, succeeded or failed, every key
\* of the channels map of the persisted configuration is a key of its
\* toolchain map.
C37_ChannelsAreToolchains ==
    cfgFile.exists => cfgFile.cfg.channels \subseteq DOMAIN cfgFile.cfg.toolchain

\* an add has failed in its install and has restored the configuration,
\* which holds the channel of an earlier add in both maps
C37_Witness ==
    \E p \in Sequential :
        /\ pc[p] = "idle"
        /\ ret[p].op = "add"
        /\ ~ret[p].ok
        /\ ret[p].installFailed
        /\ cfgFile.exists
        /\ cfgFile.cfg.channels # {}
        /\ cfgFile.cfg.channels = DOMAIN cfgFile.cfg.toolchain

\* Properties of an update of a channel that is not configured (Spec)

\* p runs handle_update on a channel whose canonical name has no entry in
\* the toolchain map of the configuration it has read
UpdatesUnknownChannel(p) ==
    /\ loc[p].caller = "update"
    /\ loc[p].channel # None
    /\ loc[p].channel \notin DOMAIN loc[p].config.toolchain

\* C38: an update of a channel without toolchain entry changes no directory
\* and does not write the configuration, and full_install returns an error.
C38_UpdateOfUnknownChannelTouchesNothing ==
    \A p \in Sequential :
        UpdatesUnknownChannel(p)
        => /\ dirs = snap[p].dirs
           /\ cfgFile = snap[p].cfg
           /\ pc[p] = "fi_ret" => loc[p].err # ""

\* ------------------------------------------------------------------------
\* The fallback iterator against the lookups of the resolver (SpecResolve)
\* ------------------------------------------------------------------------

\* the toolchains try_get_executable looks up, in order, as pairs of the key
\* and the entry, from the loop state st on when no candidate path exists
RECURSIVE LookedUp(_, _)
LookedUp(st, fuel) ==
    IF st.pc \in {"ok", "err"} \/ fuel = 0 THEN <<>>
    ELSE IF st.pc = "loop"
    THEN LET n == AfterLookup(rcfg, hostOs, hostArch, st)
         IN  (IF n.pc = "probe"
              THEN <<[real |-> n.real, info |-> rcfg.toolchain[n.real]]>>
              ELSE <<>>) \o LookedUp(n, fuel - 1)
    ELSE LookedUp(AfterProbe(rcfg, {}, "exe", ExeMoon, st), fuel - 1)

\* the lookups of the whole call for the requested name
RLookedUp == LookedUp(RStart(rcfg, rreq), WalkFuel(rcfg))

\* where the call ends when no candidate path exists
REndNoCandidate == try_get_executable(rcfg, {}, rreq, ExeMoon, hostOs, hostArch)

\* C39: for a configuration with an acyclic fallback chain and any start
\* name, the (canonical name, entry) pairs ConfigToolchainFallbackIter yields
\* are, in order, the toolchains try_get_executable looks up when no
\* candidate path exists, and the iterator ends where the resolver reports
\* the end of the chain ("Executable not found", after a toolchain without a
\* fallback) or "Toolchain not found" (at a name that cannot be looked up).
\* A running walk that finds no candidate is at a toolchain of the iterator.
C39_IteratorYieldsTheLookups ==
    (rmode = "exe" /\ RAcyclic)
    => /\ RChain = RLookedUp
       /\ REndNoCandidate.pc = "err"
       /\ REndNoCandidate.err.kind
              = (IF RChainBroken THEN "Toolchain not found" ELSE "Executable not found")
       /\ (RHits = {} /\ rst.pc = "probe")
              => \E i \in 1..Len(RChain) : RChain[i].real = rst.real
       /\ (RHits = {} /\ RDone) => rst = REndNoCandidate

\* the walk has returned after looking up two toolchains none of which has
\* its candidate, the first of them found under the canonical name of the
\* channel requested
C39_Witness ==
    /\ rmode = "exe" /\ RAcyclic /\ RDone
    /\ RHits = {}
    /\ Len(RChain) = 2
    /\ RChain[1].real # RRequested
    /\ RLookedUp = RChain
    /\ rst.pc = "err"

====
